---------------------------- MODULE Spec2Model ----------------------------
(***************************************************************************)
(* Model of model_builder: the Hamiltonian term collections of             *)
(* models/potentials/hamiltonian.py (with the term classes of bonded.py    *)
(* and the older Hamiltonian and the SBMHamilonian of                      *)
(* models/potentials/__init__.py), and the coarse-grained structure        *)
(* mappings of models/structure/mappings.py with their operations          *)
(* (map_traj, contacts, angle and dihedral tuples, disulfides).            *)
(*                                                                         *)
(* Specifications: SpecH (Hamiltonian), SpecM (mapping constructors),      *)
(* SpecP (map_traj and contact translation), SpecD (tuples and             *)
(* disulfides), SpecS (structure-based assembly).                          *)
(*                                                                         *)
(* Conventions of the model                                                *)
(*  - atoms are identified by their topology index; hash(atom) is that     *)
(*    index (mdtraj's Atom.__hash__), hash(n) of a small number is n;      *)
(*  - coordinates are one-dimensional integers, angles are counted in      *)
(*    quarter turns, energies are counted in units of one half (so the     *)
(*    factor 0.5 of the harmonic forms stays integral).                    *)
(***************************************************************************)
EXTENDS Integers, Sequences, FiniteSets, TLC

VARIABLES _bonds, _angles, _dihedrals, _pairs, ret, mapping,
          _default_parameters, _default_potentials

vars == <<_bonds, _angles, _dihedrals, _pairs, ret, mapping,
          _default_parameters, _default_potentials>>

hvars == <<_bonds, _angles, _dihedrals, _pairs>>

dvars == <<_default_parameters, _default_potentials>>

(***************************************************************************)
(* Bounds                                                                  *)
(***************************************************************************)
\* total number of terms a Hamiltonian of the model may hold
MaxTerms == 2

\* number of entries of a bulk add
MaxBatch == 2

\* chains of an input topology, residues of a chain
MaxChains == 2

MaxRes == 3

\* residues of an input topology a mapping operation is applied to
MaxTotal == 4

(***************************************************************************)
(* Generic helpers                                                         *)
(***************************************************************************)
RECURSIVE XOR(_, _)
\* Python's ^ on non-negative integers
XOR(a, b) ==
    IF a = 0 THEN b
    ELSE IF b = 0 THEN a
    ELSE (((a % 2) + (b % 2)) % 2) + 2 * XOR(a \div 2, b \div 2)

Abs(x) == IF x < 0 THEN -x ELSE x

RECURSIVE SumSeq(_)
SumSeq(s) == IF s = <<>> THEN 0 ELSE s[1] + SumSeq(Tail(s))

(***************************************************************************)
(* bonded.py: hashing and equality of terms.  A term is a record           *)
(* [label, atoms, params]: prefix_label, (atmi, atmj, ...) and the         *)
(* numeric attributes in the order of the constructor.                     *)
(***************************************************************************)
\* hash() of a prefix_label string: a fixed word well above the small
\* integers that atoms and parameters hash to
HashStr(s) ==
    CASE s = "HARMONIC_BOND" -> 64
      [] s = "HARMONIC_ANGLE" -> 128
      [] s = "HARMONIC_DIHEDRAL" -> 256
      [] s = "COSINE_DIHEDRAL" -> 512
      [] OTHER -> 1024

\* hash() of an atom (its index) or of a number (itself)
Hash(x) == x

RECURSIVE XorAll(_)
XorAll(s) == IF s = <<>> THEN 0 ELSE XOR(Hash(s[1]), XorAll(Tail(s)))

\* BondPotential.__hash__, AnglePotential.__hash__, DihedralPotential.__hash__
BasePotential__hash__(t) == XOR(HashStr(t.label), XorAll(t.atoms))

\* HarmonicBondPotential.__hash__: hash(frozenset(self.__dict__.items())),
\* a word that is distinct for distinct attribute dictionaries
HarmonicBondPotential__hash__(t) ==
    (((HashStr(t.label) * 16 + t.atoms[1]) * 16 + t.atoms[2]) * 16
        + t.params[1]) * 16 + t.params[2]

\* HarmonicAnglePotential.__hash__
HarmonicAnglePotential__hash__(t) ==
    XOR(XOR(BasePotential__hash__(t), Hash(t.params[1])), Hash(t.params[2]))

\* HarmonicDihedralPotential.__hash__ (xors hash(prefix_label) a second time)
HarmonicDihedralPotential__hash__(t) ==
    XOR(XOR(XOR(BasePotential__hash__(t), HashStr(t.label)),
            Hash(t.params[1])), Hash(t.params[2]))

\* CosineDihedralPotential.__hash__
CosineDihedralPotential__hash__(t) ==
    XOR(XOR(XOR(XOR(BasePotential__hash__(t), HashStr(t.label)),
                Hash(t.params[1])), Hash(t.params[2])), Hash(t.params[3]))

\* dispatch of t.__hash__() on the class of a bonded term
BondedHash(t) ==
    CASE t.label = "HARMONIC_BOND" -> HarmonicBondPotential__hash__(t)
      [] t.label = "HARMONIC_ANGLE" -> HarmonicAnglePotential__hash__(t)
      [] t.label = "HARMONIC_DIHEDRAL" -> HarmonicDihedralPotential__hash__(t)
      [] t.label = "COSINE_DIHEDRAL" -> CosineDihedralPotential__hash__(t)

\* BondPotential.__eq__, AnglePotential.__eq__, DihedralPotential.__eq__
BondedEq(t, u) == BondedHash(t) = BondedHash(u)

\* equality of pair terms (pairwise.py): type tag and atom tuple
PairEq(t, u) == t.label = u.label /\ t.atoms = u.atoms

(***************************************************************************)
(* Registries: tag -> number of parameters of the constructor              *)
(***************************************************************************)
BOND_POTENTIALS == [c \in {"HARMONIC_BOND"} |-> 2]

ANGLE_POTENTIALS == [c \in {"HARMONIC_ANGLE"} |-> 2]

DIHEDRAL_POTENTIALS ==
    [c \in {"HARMONIC_DIHEDRAL", "COSINE_DIHEDRAL"} |->
        IF c = "HARMONIC_DIHEDRAL" THEN 2 ELSE 3]

\* pairwise.PAIR_POTENTIALS: the tag add_custom_pair looks up; the supplied
\* function takes two parameters (eps, r0) in the model
PAIR_POTENTIALS == [c \in {"CUSTOM"} |-> 2]

\* Construct with a default class in place of the KeyError
Construct_default(registry, code, atoms, args) ==
    LET c == IF code \in DOMAIN registry THEN code
             ELSE CHOOSE x \in DOMAIN registry : TRUE
    IN IF Len(args) # registry[c]
       THEN [err |-> "TypeError", term |-> <<>>]
       ELSE [err |-> "none",
             term |-> [label |-> c, atoms |-> atoms, params |-> args]]

\* REGISTRY[code](atoms..., *args): KeyError for an unknown code, TypeError
\* when the number of positional arguments is not the constructor's
Construct(registry, code, atoms, args) ==
    IF code \notin DOMAIN registry
    THEN [err |-> "KeyError", term |-> <<>>]
    ELSE IF Len(args) # registry[code]
    THEN [err |-> "TypeError", term |-> <<>>]
    ELSE [err |-> "none",
          term |-> [label |-> code, atoms |-> atoms, params |-> args]]

\* the registry of a category
Registry(cat) ==
    CASE cat = "bond" -> BOND_POTENTIALS
      [] cat = "angle" -> ANGLE_POTENTIALS
      [] cat = "dihedral" -> DIHEDRAL_POTENTIALS
      [] OTHER -> PAIR_POTENTIALS

\* t == u with the __eq__ of the classes of a category
TermEq(cat, t, u) == IF cat = "pair" THEN PairEq(t, u) ELSE BondedEq(t, u)

\* `t in coll`
Contains(cat, coll, t) == \E i \in DOMAIN coll : TermEq(cat, coll[i], t)

\* body shared by _add_bond, _add_angle, _add_dihedral, _add_pair:
\* construct, then append unless an equal term is present
AddTerm(cat, coll, code, atoms, args) ==
    LET c == Construct(Registry(cat), code, atoms, args) IN
    IF c.err # "none"
    THEN [coll |-> coll, err |-> c.err, warn |-> FALSE, term |-> c.term]
    ELSE IF ~Contains(cat, coll, c.term)
    THEN [coll |-> Append(coll, c.term), err |-> "none", warn |-> FALSE,
          term |-> c.term]
    ELSE [coll |-> coll, err |-> "none", warn |-> TRUE, term |-> c.term]

_add_bond(coll, code, atoms, args) == AddTerm("bond", coll, code, atoms, args)

_add_angle(coll, code, atoms, args) == AddTerm("angle", coll, code, atoms, args)

_add_dihedral(coll, code, atoms, args) ==
    AddTerm("dihedral", coll, code, atoms, args)

_add_pair(coll, code, atoms, args) == AddTerm("pair", coll, code, atoms, args)

(***************************************************************************)
(* Energy functions V of the term classes (units of one half)              *)
(***************************************************************************)
\* HarmonicBondPotential.V = kb*dVdkb(r), dVdkb = 0.5*(r - r0)**2; the
\* harmonic angle and dihedral forms are the same expression
HarmonicV(t, x) == t.params[1] * ((x - t.params[2]) * (x - t.params[2]))

\* twice the cosine of an angle given in quarter turns
Cos2(q) == CASE q % 4 = 0 -> 2 [] q % 4 = 2 -> -2 [] OTHER -> 0

\* CosineDihedralPotential.V = kd*(1 - cos(mult*(phi - phi0)))
CosineV(t, phi) == t.params[1] * (2 - Cos2(t.params[3] * (phi - t.params[2])))

\* V of a pair term of pairwise.py: the supplied function applied to r and
\* the parameters, here a well of depth eps around r0
PairV(t, r) == t.params[1] * ((r - t.params[2]) * (r - t.params[2]))

\* pot.V(x) dispatched on the class of the term
TermV(t, x) ==
    CASE t.label = "COSINE_DIHEDRAL" -> CosineV(t, x)
      [] t.label \in {"HARMONIC_BOND", "HARMONIC_ANGLE", "HARMONIC_DIHEDRAL"}
            -> HarmonicV(t, x)
      [] OTHER -> PairV(t, x)

(***************************************************************************)
(* Index arrays and the geometry collaborator                              *)
(***************************************************************************)
\* IdxArray with the rows in the reverse of the insertion order
IdxArray_reversed(coll) ==
    [ndim |-> IF Len(coll) = 0 THEN 1 ELSE 2,
     rows |-> [i \in DOMAIN coll |-> coll[Len(coll) + 1 - i].atoms]]

\* np.array([[t.atmi.index, ...] for t in coll]): an (n, k) array when
\* there are rows, the one-dimensional empty array of shape (0,) when not
IdxArray(coll) ==
    [ndim |-> IF Len(coll) = 0 THEN 1 ELSE 2,
     rows |-> [i \in DOMAIN coll |-> coll[i].atoms]]

_bond_idxs(coll) == IdxArray(coll)

_angle_idxs(coll) == IdxArray(coll)

_dihedral_idxs(coll) == IdxArray(coll)

_pair_idxs(coll) == IdxArray(coll)

\* coordinate of atom a in frame frm
X(frm, a) == frm[a + 1]

\* geometric observable of one index row in one frame: distance for two
\* atoms, angle (quarter turns) for three, dihedral for four
Observable(frm, row) ==
    CASE Len(row) = 2 -> Abs(X(frm, row[1]) - X(frm, row[2]))
      [] Len(row) = 3 ->
            (Abs(X(frm, row[1]) - X(frm, row[2]))
                + 2 * Abs(X(frm, row[3]) - X(frm, row[2]))) % 4
      [] OTHER ->
            (X(frm, row[1]) + 2 * X(frm, row[2]) + 3 * X(frm, row[3])
                + X(frm, row[4])) % 4

\* md.compute_distances / compute_angles / compute_dihedrals: the index
\* array must be two-dimensional; the result is frame-major
compute(traj, idxs) ==
    IF idxs.ndim # 2
    THEN [err |-> "TypeError", val |-> <<>>]
    ELSE [err |-> "none",
          val |-> [f \in DOMAIN traj |->
                    [i \in DOMAIN idxs.rows |-> Observable(traj[f], idxs.rows[i])]]]

RECURSIVE SumLoop_short(_, _, _, _)
\* SumLoop over range(n - 1)
SumLoop_short(coll, r, i, E) ==
    IF i >= Len(coll) THEN E
    ELSE SumLoop_short(coll, r, i + 1,
                       [f \in DOMAIN E |-> E[f] + TermV(coll[i], r[f][i])])

RECURSIVE SumLoop(_, _, _, _)
\* for i in range(n): E += coll[i].V(r[:, i])
SumLoop(coll, r, i, E) ==
    IF i > Len(coll) THEN E
    ELSE SumLoop(coll, r, i + 1,
                 [f \in DOMAIN E |-> E[f] + TermV(coll[i], r[f][i])])

RECURSIVE TermLoop(_, _, _, _)
\* for i in range(n): E[:, i] = coll[i].V(r[:, i])
TermLoop(coll, r, i, E) ==
    IF i > Len(coll) THEN E
    ELSE TermLoop(coll, r, i + 1,
                  [f \in DOMAIN E |-> [E[f] EXCEPT ![i] = TermV(coll[i], r[f][i])]])

\* body shared by the four calc_*_energy methods; idxs is the index array
\* the method read from its property, handed on to the geometry call
CalcEnergy(coll, idxs, traj, sum) ==
    LET r == compute(traj, idxs) IN
    IF r.err # "none" THEN [err |-> r.err, out |-> <<>>, idxs |-> idxs.rows]
    ELSE IF sum
    THEN [err |-> "none", idxs |-> idxs.rows,
          out |-> SumLoop(coll, r.val, 1, [f \in DOMAIN traj |-> 0])]
    ELSE [err |-> "none", idxs |-> idxs.rows,
          out |-> TermLoop(coll, r.val, 1,
                           [f \in DOMAIN traj |-> [i \in DOMAIN coll |-> 0]])]

calc_bond_energy(coll, traj, sum) == CalcEnergy(coll, _bond_idxs(coll), traj, sum)

calc_angle_energy(coll, traj, sum) == CalcEnergy(coll, _angle_idxs(coll), traj, sum)

calc_dihedral_energy(coll, traj, sum) ==
    CalcEnergy(coll, _dihedral_idxs(coll), traj, sum)

calc_pair_energy(coll, traj, sum) == CalcEnergy(coll, _pair_idxs(coll), traj, sum)

(***************************************************************************)
(* describe                                                                *)
(***************************************************************************)
\* pot.describe(): the prefix label followed by the atoms
TermDescribe(t) == <<t.label, t.atoms>>

\* Hamiltonian.potentials
potentials(b, a, d, p) == b \o a \o d \o p

\* hamiltonian.py Hamiltonian.describe: one line per potential
describe(b, a, d, p) ==
    [i \in DOMAIN potentials(b, a, d, p) |-> TermDescribe(potentials(b, a, d, p)[i])]

\* potentials/__init__.py Hamiltonian.describe: iterates self.pairs
describe_init(b, a, d, p) == [i \in DOMAIN p |-> TermDescribe(p[i])]

(***************************************************************************)
(* Bulk adds.  An entry b of a batch is [code, atoms, rest]: b[0], the     *)
(* atoms b[1..k] and the remaining slice b[k+1:].                          *)
(***************************************************************************)
RECURSIVE _add_bonds(_, _)
\* for b in bond_params: self._add_bond(b[0], b[1], b[2], b[3:])
\* (the slice is passed as one positional argument)
_add_bonds(coll, bond_params) ==
    IF bond_params = <<>> THEN [coll |-> coll, err |-> "none"]
    ELSE LET b == Head(bond_params)
             r == _add_bond(coll, b.code, b.atoms, <<b.rest>>)
         IN IF r.err # "none" THEN [coll |-> r.coll, err |-> r.err]
            ELSE _add_bonds(r.coll, Tail(bond_params))

RECURSIVE _add_angles(_, _)
\* for a in angle_params: self._add_angle(a[0], a[1], a[2], a[3], a[4:])
_add_angles(coll, angle_params) ==
    IF angle_params = <<>> THEN [coll |-> coll, err |-> "none"]
    ELSE LET a == Head(angle_params)
             r == _add_angle(coll, a.code, a.atoms, <<a.rest>>)
         IN IF r.err # "none" THEN [coll |-> r.coll, err |-> r.err]
            ELSE _add_angles(r.coll, Tail(angle_params))

RECURSIVE _add_dihedrals(_, _)
\* for d in dihedral_params: self._add_dihedral(d[0], ..., d[4], d[5:])
_add_dihedrals(coll, dihedral_params) ==
    IF dihedral_params = <<>> THEN [coll |-> coll, err |-> "none"]
    ELSE LET d == Head(dihedral_params)
             r == _add_dihedral(coll, d.code, d.atoms, <<d.rest>>)
         IN IF r.err # "none" THEN [coll |-> r.coll, err |-> r.err]
            ELSE _add_dihedrals(r.coll, Tail(dihedral_params))

RECURSIVE _add_pairs(_, _)
\* for p in pair_params: self._add_pair(p[0], p[1], p[2], *p[3:])
_add_pairs(coll, pair_params) ==
    IF pair_params = <<>> THEN [coll |-> coll, err |-> "none"]
    ELSE LET p == Head(pair_params)
             r == _add_pair(coll, p.code, p.atoms, p.rest)
         IN IF r.err # "none" THEN [coll |-> r.coll, err |-> r.err]
            ELSE _add_pairs(r.coll, Tail(pair_params))

\* add_custom_pair: PAIR_POTENTIALS["CUSTOM"](atm1, atm2, func, *args)
add_custom_pair(coll, atoms, args) == AddTerm("pair", coll, "CUSTOM", atoms, args)

(***************************************************************************)
(* Inputs of the Hamiltonian operations                                    *)
(***************************************************************************)
BondCodes == {"HARMONIC_BOND", "BOGUS"}

AngleCodes == {"HARMONIC_ANGLE", "BOGUS"}

DihedralCodes == {"HARMONIC_DIHEDRAL", "COSINE_DIHEDRAL", "BOGUS"}

PairCodes == {"CUSTOM", "BOGUS"}

BondAtoms == {<<0, 1>>, <<1, 0>>}

AngleAtoms == {<<0, 1, 2>>, <<1, 0, 2>>}

DihedralAtoms == {<<0, 1, 2, 3>>}

PairAtoms == {<<0, 2>>, <<2, 0>>}

\* (kb, r0)
BondArgs == {<<1, 1>>, <<2, 1>>}

\* (ka, theta0)
AngleArgs == {<<1, 0>>, <<1, 1>>}

\* (kd, phi0) and (kd, phi0, mult)
DihedralArgs(code) ==
    IF code = "COSINE_DIHEDRAL" THEN {<<1, 0, 1>>, <<1, 1, 1>>}
    ELSE {<<1, 0>>, <<1, 1>>}

\* (eps, r0)
PairArgs == {<<1, 1>>, <<1, 2>>}

\* entries of the bulk adds
BondEntries ==
    {[code |-> c, atoms |-> <<0, 1>>, rest |-> <<1, 1>>] : c \in BondCodes}

AngleEntries ==
    {[code |-> c, atoms |-> <<0, 1, 2>>, rest |-> <<1, 0>>] : c \in AngleCodes}

DihedralEntries ==
    {[code |-> c, atoms |-> <<0, 1, 2, 3>>, rest |-> <<1, 0>>] :
        c \in {"HARMONIC_DIHEDRAL", "BOGUS"}}

PairEntries ==
    {[code |-> "CUSTOM", atoms |-> <<0, 2>>, rest |-> a] : a \in PairArgs}
    \cup {[code |-> "BOGUS", atoms |-> <<0, 2>>, rest |-> <<1, 1>>]}

\* the batches of 1..MaxBatch entries drawn from a set of entries
Batches(entries) == UNION {[1..n -> entries] : n \in 1..MaxBatch}

\* coordinates of atoms 0..3 in two frames
Frame1 == <<0, 1, 3, 6>>

Frame2 == <<2, 0, 1, 1>>

Trajs == {<<Frame1>>, <<Frame2, Frame1>>}

(***************************************************************************)
(* State machine of the Hamiltonian.  ret records the last call: the       *)
(* operation, its category and tag, the exception raised (err), whether    *)
(* the duplicate warning was emitted, the constructed term, and for the    *)
(* energy and describe calls the arguments and the value returned.         *)
(***************************************************************************)
NoRet ==
    [op |-> "new", cat |-> "none", code |-> "none", err |-> "none",
     warn |-> FALSE, term |-> <<>>, sum |-> FALSE, traj |-> <<>>,
     out |-> <<>>]

NoMapping == [variant |-> "none"]

\* a Python value with its type: {} is a dict, [] is a list
EmptyDict == [type |-> "dict", items |-> {}]

EmptyList == [type |-> "list", items |-> {}]

NTerms(b, a, d, p) == Len(b) + Len(a) + Len(d) + Len(p)

\* Hamiltonian.__init__
Init ==
    /\ _bonds = <<>>
    /\ _angles = <<>>
    /\ _dihedrals = <<>>
    /\ _pairs = <<>>
    /\ ret = NoRet
    /\ mapping = NoMapping
    /\ _default_parameters = EmptyDict
    /\ _default_potentials = EmptyDict

AddRet(cat, code, r) ==
    [NoRet EXCEPT !.op = "add", !.cat = cat, !.code = code, !.err = r.err,
                  !.warn = r.warn, !.term = r.term]

AddBond ==
    \E code \in BondCodes, atoms \in BondAtoms, args \in BondArgs :
        LET r == _add_bond(_bonds, code, atoms, args) IN
        /\ NTerms(r.coll, _angles, _dihedrals, _pairs) <= MaxTerms
        /\ _bonds' = r.coll
        /\ ret' = AddRet("bond", code, r)
        /\ UNCHANGED <<_angles, _dihedrals, _pairs, mapping, dvars>>

AddAngle ==
    \E code \in AngleCodes, atoms \in AngleAtoms, args \in AngleArgs :
        LET r == _add_angle(_angles, code, atoms, args) IN
        /\ NTerms(_bonds, r.coll, _dihedrals, _pairs) <= MaxTerms
        /\ _angles' = r.coll
        /\ ret' = AddRet("angle", code, r)
        /\ UNCHANGED <<_bonds, _dihedrals, _pairs, mapping, dvars>>

AddDihedral ==
    \E code \in DihedralCodes, atoms \in DihedralAtoms :
        \E args \in DihedralArgs(code) :
            LET r == _add_dihedral(_dihedrals, code, atoms, args) IN
            /\ NTerms(_bonds, _angles, r.coll, _pairs) <= MaxTerms
            /\ _dihedrals' = r.coll
            /\ ret' = AddRet("dihedral", code, r)
            /\ UNCHANGED <<_bonds, _angles, _pairs, mapping, dvars>>

AddPair ==
    \E code \in PairCodes, atoms \in PairAtoms, args \in PairArgs :
        LET r == _add_pair(_pairs, code, atoms, args) IN
        /\ NTerms(_bonds, _angles, _dihedrals, r.coll) <= MaxTerms
        /\ _pairs' = r.coll
        /\ ret' = AddRet("pair", code, r)
        /\ UNCHANGED <<_bonds, _angles, _dihedrals, mapping, dvars>>

AddCustomPair ==
    \E atoms \in PairAtoms, args \in PairArgs :
        LET r == add_custom_pair(_pairs, atoms, args) IN
        /\ NTerms(_bonds, _angles, _dihedrals, r.coll) <= MaxTerms
        /\ _pairs' = r.coll
        /\ ret' = AddRet("pair", "CUSTOM", r)
        /\ UNCHANGED <<_bonds, _angles, _dihedrals, mapping, dvars>>

BulkRet(cat, params, r) ==
    [NoRet EXCEPT !.op = "bulk", !.cat = cat, !.err = r.err, !.term = params]

AddBonds ==
    \E bond_params \in Batches(BondEntries) :
        LET r == _add_bonds(_bonds, bond_params) IN
        /\ NTerms(r.coll, _angles, _dihedrals, _pairs) <= MaxTerms
        /\ _bonds' = r.coll
        /\ ret' = BulkRet("bond", bond_params, r)
        /\ UNCHANGED <<_angles, _dihedrals, _pairs, mapping, dvars>>

AddAngles ==
    \E angle_params \in Batches(AngleEntries) :
        LET r == _add_angles(_angles, angle_params) IN
        /\ NTerms(_bonds, r.coll, _dihedrals, _pairs) <= MaxTerms
        /\ _angles' = r.coll
        /\ ret' = BulkRet("angle", angle_params, r)
        /\ UNCHANGED <<_bonds, _dihedrals, _pairs, mapping, dvars>>

AddDihedrals ==
    \E dihedral_params \in Batches(DihedralEntries) :
        LET r == _add_dihedrals(_dihedrals, dihedral_params) IN
        /\ NTerms(_bonds, _angles, r.coll, _pairs) <= MaxTerms
        /\ _dihedrals' = r.coll
        /\ ret' = BulkRet("dihedral", dihedral_params, r)
        /\ UNCHANGED <<_bonds, _angles, _pairs, mapping, dvars>>

AddPairs ==
    \E pair_params \in Batches(PairEntries) :
        LET r == _add_pairs(_pairs, pair_params) IN
        /\ NTerms(_bonds, _angles, _dihedrals, r.coll) <= MaxTerms
        /\ _pairs' = r.coll
        /\ ret' = BulkRet("pair", pair_params, r)
        /\ UNCHANGED <<_bonds, _angles, _dihedrals, mapping, dvars>>

\* term holds the index array the call used
CalcRet(cat, traj, sum, r) ==
    [NoRet EXCEPT !.op = "calc", !.cat = cat, !.traj = traj, !.sum = sum,
                  !.err = r.err, !.out = r.out, !.term = r.idxs]

CalcBondEnergy ==
    \E traj \in Trajs, sum \in BOOLEAN :
        /\ ret' = CalcRet("bond", traj, sum, calc_bond_energy(_bonds, traj, sum))
        /\ UNCHANGED <<hvars, mapping, dvars>>

CalcAngleEnergy ==
    \E traj \in Trajs, sum \in BOOLEAN :
        /\ ret' = CalcRet("angle", traj, sum, calc_angle_energy(_angles, traj, sum))
        /\ UNCHANGED <<hvars, mapping, dvars>>

CalcDihedralEnergy ==
    \E traj \in Trajs, sum \in BOOLEAN :
        /\ ret' = CalcRet("dihedral", traj, sum,
                          calc_dihedral_energy(_dihedrals, traj, sum))
        /\ UNCHANGED <<hvars, mapping, dvars>>

CalcPairEnergy ==
    \E traj \in Trajs, sum \in BOOLEAN :
        /\ ret' = CalcRet("pair", traj, sum, calc_pair_energy(_pairs, traj, sum))
        /\ UNCHANGED <<hvars, mapping, dvars>>

\* describe() of hamiltonian.py
Describe ==
    /\ ret' = [NoRet EXCEPT !.op = "describe",
                            !.out = describe(_bonds, _angles, _dihedrals, _pairs)]
    /\ UNCHANGED <<hvars, mapping, dvars>>

\* describe() of potentials/__init__.py
DescribeInit ==
    /\ ret' = [NoRet EXCEPT !.op = "describe_init",
                            !.out = describe_init(_bonds, _angles, _dihedrals, _pairs)]
    /\ UNCHANGED <<hvars, mapping, dvars>>

NextH ==
    \/ AddBond \/ AddAngle \/ AddDihedral \/ AddPair \/ AddCustomPair
    \/ AddBonds \/ AddAngles \/ AddDihedrals \/ AddPairs
    \/ CalcBondEnergy \/ CalcAngleEnergy \/ CalcDihedralEnergy \/ CalcPairEnergy
    \/ Describe \/ DescribeInit

SpecH == Init /\ [][NextH]_vars

(***************************************************************************)
(* mappings.py: the all-atom input topology.  An input is a sequence of    *)
(* chains, each a sequence of residue names; its atoms are indexed         *)
(* densely in chain, residue, atom order.                                  *)
(***************************************************************************)
ResNames == {"ALA", "GLY"}

Chains == UNION {[1..n -> ResNames] : n \in 1..MaxRes}

Topologies == UNION {[1..n -> Chains] : n \in 1..MaxChains}

\* atoms of a residue of the input, in file order
ResidueTemplate(name) ==
    LET backbone ==
            << [name |-> "N", element |-> "N", is_sidechain |-> FALSE, mass |-> 14],
               [name |-> "CA", element |-> "C", is_sidechain |-> FALSE, mass |-> 12],
               [name |-> "C", element |-> "C", is_sidechain |-> FALSE, mass |-> 12],
               [name |-> "O", element |-> "O", is_sidechain |-> FALSE, mass |-> 16] >>
    IN IF name = "GLY"
       THEN backbone \o
            << [name |-> "HA2", element |-> "H", is_sidechain |-> FALSE, mass |-> 1] >>
       ELSE backbone \o
            << [name |-> "CB", element |-> "C", is_sidechain |-> TRUE, mass |-> 12],
               [name |-> "HB1", element |-> "H", is_sidechain |-> TRUE, mass |-> 1] >>

RECURSIVE FlattenChain(_, _, _, _, _)
\* residues of one input chain: [name, chain, index, resSeq, atoms], the
\* atoms carrying their global index
FlattenChain(names, chain, k, res0, atm0) ==
    IF k > Len(names) THEN <<>>
    ELSE LET tpl == ResidueTemplate(names[k])
             res == [name |-> names[k], chain |-> chain, index |-> res0,
                     resSeq |-> res0 + 1,
                     atoms |-> [i \in DOMAIN tpl |->
                        [name |-> tpl[i].name, element |-> tpl[i].element,
                         is_sidechain |-> tpl[i].is_sidechain,
                         mass |-> tpl[i].mass, index |-> atm0 + i - 1]]]
         IN <<res>> \o FlattenChain(names, chain, k + 1, res0 + 1, atm0 + Len(tpl))

RECURSIVE NAtomsOf(_)
NAtomsOf(residues) ==
    IF residues = <<>> THEN 0
    ELSE Len(residues[1].atoms) + NAtomsOf(Tail(residues))

RECURSIVE FlattenTop(_, _, _, _)
\* [res for chain in topology._chains for res in chain._residues]
FlattenTop(top, c, res0, atm0) ==
    IF c > Len(top) THEN <<>>
    ELSE LET rs == FlattenChain(top[c], c - 1, 1, res0, atm0)
         IN rs \o FlattenTop(top, c + 1, res0 + Len(rs), atm0 + NAtomsOf(rs))

RefResidues(top) == FlattenTop(top, 1, 0, 0)

\* [atm.index for atm in residue.atoms if atm.name == name][0]
FirstNamed(residue, name) ==
    LET k == CHOOSE i \in DOMAIN residue.atoms :
                /\ residue.atoms[i].name = name
                /\ \A j \in 1..(i - 1) : residue.atoms[j].name # name
    IN residue.atoms[k].index

\* bonds of the input topology: the covalent bonds inside each residue and
\* the peptide bond C(i)-N(i+1) inside a chain
RefBonds(residues) ==
    LET intra(r) ==
            { <<FirstNamed(r, "N"), FirstNamed(r, "CA")>>,
              <<FirstNamed(r, "CA"), FirstNamed(r, "C")>>,
              <<FirstNamed(r, "C"), FirstNamed(r, "O")>> }
            \cup (IF r.name = "GLY"
                  THEN { <<FirstNamed(r, "CA"), FirstNamed(r, "HA2")>> }
                  ELSE { <<FirstNamed(r, "CA"), FirstNamed(r, "CB")>>,
                         <<FirstNamed(r, "CB"), FirstNamed(r, "HB1")>> })
        peptide ==
            { <<FirstNamed(residues[i], "C"), FirstNamed(residues[i + 1], "N")>> :
                i \in {j \in 1..(Len(residues) - 1) :
                            residues[j].chain = residues[j + 1].chain} }
    IN UNION {intra(residues[i]) : i \in DOMAIN residues} \cup peptide

(***************************************************************************)
(* mdtraj Topology under construction: chains (a count), residues          *)
(* [name, chain, resSeq, atoms], atoms [name, element, index, residue,     *)
(* serial] and the list of bonds                                           *)
(***************************************************************************)
Topology == [nchains |-> 0, residues |-> <<>>, atoms |-> <<>>, bonds |-> <<>>]

add_chain(t) == [t EXCEPT !.nchains = @ + 1]

\* the new residue has index Len(t.residues)
add_residue(t, name, chain, resSeq) ==
    [t EXCEPT !.residues =
        Append(@, [name |-> name, chain |-> chain, resSeq |-> resSeq,
                   atoms |-> <<>>])]

\* the new atom has index Len(t.atoms)
add_atom(t, name, element, residue, serial) ==
    [t EXCEPT !.atoms =
                Append(@, [name |-> name, element |-> element,
                           index |-> Len(t.atoms), residue |-> residue,
                           serial |-> serial]),
              !.residues[residue + 1].atoms = Append(@, Len(t.atoms))]

add_bond(t, a, b) == [t EXCEPT !.bonds = Append(@, <<a, b>>)]

\* atom.residue.chain.index
ChainOfAtom(t, a) == t.residues[t.atoms[a + 1].residue + 1].chain

None == -1

\* an attribute the object does not have yet (not a list of tuples)
NoAttr == << <<>> >>

\* the residues of chain c among the flattened residues
ResiduesOfChain(residues, c) == SelectSeq(residues, LAMBDA r : r.chain = c)

NChains(residues) == IF residues = <<>> THEN 0 ELSE residues[Len(residues)].chain + 1

\* a mapping object: the variant, the coarse-grained topology, the input
\* it was built from and the index tables of the variant; _angles,
\* _dihedrals and _improper_dihedrals are NoAttr until an _assign_sbm_* call
\* creates the attribute
Mapping(variant, residues, t) ==
    [variant |-> variant, ref |-> residues, topology |-> t,
     _ca_idxs |-> <<>>, _sidechain_idxs |-> <<>>, _sidechain_mass |-> <<>>,
     _heavy_atom_idxs |-> <<>>, _CACBO_idxs |-> <<>>, _HB_idxs |-> <<>>,
     _angles |-> NoAttr, _dihedrals |-> NoAttr, _improper_dihedrals |-> NoAttr]

(***************************************************************************)
(* CalphaMapping.__init__                                                  *)
(***************************************************************************)
\* body of `for residue in chain._residues`
CalphaResidue(st, newChain, residue) ==
    LET resSeq == IF residue.resSeq # 0 THEN residue.resSeq ELSE residue.index
        newResidue == Len(st.top.residues)
        t1 == add_residue(st.top, residue.name, newChain, resSeq)
        new_ca == Len(t1.atoms)
        t2 == add_atom(t1, "CA", "C", newResidue, st.atm_idx)
        t3 == IF st.prev_ca = None THEN t2
              ELSE IF ChainOfAtom(t2, st.prev_ca) = ChainOfAtom(t2, new_ca)
              THEN add_bond(t2, st.prev_ca, new_ca)
              ELSE t2
    IN [top |-> t3,
        ca_idxs |-> Append(st.ca_idxs, <<FirstNamed(residue, "CA"), st.atm_idx>>),
        atm_idx |-> st.atm_idx + 1,
        prev_ca |-> new_ca]

RECURSIVE CalphaResidues(_, _, _)
CalphaResidues(st, newChain, rs) ==
    IF rs = <<>> THEN st
    ELSE CalphaResidues(CalphaResidue(st, newChain, Head(rs)), newChain, Tail(rs))

RECURSIVE CalphaChains(_, _, _)
\* `for chain in topology._chains`, from chain c on
CalphaChains(st, residues, c) ==
    IF c >= NChains(residues) THEN st
    ELSE CalphaChains(
            CalphaResidues([st EXCEPT !.top = add_chain(@)], st.top.nchains,
                           ResiduesOfChain(residues, c)),
            residues, c + 1)

CalphaMapping(top) ==
    LET residues == RefResidues(top)
        st == CalphaChains([top |-> Topology, ca_idxs |-> <<>>, atm_idx |-> 0,
                            prev_ca |-> None], residues, 0)
    IN [Mapping("CA", residues, st.top) EXCEPT !._ca_idxs = st.ca_idxs]

(***************************************************************************)
(* CalphaCbetaMapping.__init__                                             *)
(***************************************************************************)
\* atom_types.residue_code: one-letter code of a residue name
residue_code(name) == IF name = "GLY" THEN "G" ELSE "A"

\* heavy side-chain atoms of an input residue
HeavySidechain(residue) ==
    SelectSeq(residue.atoms, LAMBDA atm : atm.is_sidechain /\ atm.element # "H")

\* SidechainEntry recorded after the counter has moved on
SidechainEntry_late(residue, new_atm_idx) ==
    << [i \in DOMAIN HeavySidechain(residue) |-> HeavySidechain(residue)[i].index],
       new_atm_idx + 1 >>

\* HasCbeta without the glycine case
HasCbeta_always(residue) == TRUE

\* `if residue.name == 'GLY'` ... else: the residue gets a CB bead
HasCbeta(residue) == residue.name # "GLY"

\* the entry appended to _sidechain_idxs for a residue that has a CB
SidechainEntry(residue, new_atm_idx) ==
    << [i \in DOMAIN HeavySidechain(residue) |-> HeavySidechain(residue)[i].index],
       new_atm_idx >>

\* body of `for residue in chain._residues`
CalphaCbetaResidue(st, newChain, residue) ==
    LET newResidue == Len(st.top.residues)
        t1 == add_residue(st.top, residue.name, newChain, st.res_idx)
        new_ca == Len(t1.atoms)
        t2 == add_atom(t1, "CA", "C", newResidue, st.new_atm_idx)
        t3 == IF st.prev_ca = None THEN t2
              ELSE IF ChainOfAtom(t2, new_ca) = ChainOfAtom(t2, st.prev_ca)
              THEN add_bond(t2, st.prev_ca, new_ca)
              ELSE t2
        ca_idxs == Append(st.ca_idxs,
                          <<FirstNamed(residue, "CA"), st.new_atm_idx>>)
        idx1 == st.new_atm_idx + 1
    IN IF ~HasCbeta(residue)
       THEN [top |-> t3, ca_idxs |-> ca_idxs, prev_ca |-> new_ca,
             sidechain_idxs |-> Append(st.sidechain_idxs, <<>>),
             sidechain_mass |-> Append(st.sidechain_mass, <<>>),
             new_atm_idx |-> idx1, res_idx |-> st.res_idx + 1]
       ELSE LET new_cb == Len(t3.atoms)
                t4 == add_atom(t3, "CB" \o residue_code(residue.name), "C",
                               newResidue, idx1)
                t5 == add_bond(t4, new_cb, new_ca)
            IN [top |-> t5, ca_idxs |-> ca_idxs, prev_ca |-> new_ca,
                sidechain_idxs |->
                    Append(st.sidechain_idxs, SidechainEntry(residue, idx1)),
                sidechain_mass |->
                    Append(st.sidechain_mass,
                           [i \in DOMAIN HeavySidechain(residue) |->
                                HeavySidechain(residue)[i].mass]),
                new_atm_idx |-> idx1 + 1, res_idx |-> st.res_idx + 1]

RECURSIVE CalphaCbetaResidues(_, _, _)
CalphaCbetaResidues(st, newChain, rs) ==
    IF rs = <<>> THEN st
    ELSE CalphaCbetaResidues(CalphaCbetaResidue(st, newChain, Head(rs)),
                             newChain, Tail(rs))

RECURSIVE CalphaCbetaChains(_, _, _)
CalphaCbetaChains(st, residues, c) ==
    IF c >= NChains(residues) THEN st
    ELSE CalphaCbetaChains(
            CalphaCbetaResidues([st EXCEPT !.top = add_chain(@)], st.top.nchains,
                                ResiduesOfChain(residues, c)),
            residues, c + 1)

CalphaCbetaMapping(top) ==
    LET residues == RefResidues(top)
        st == CalphaCbetaChains(
                [top |-> Topology, ca_idxs |-> <<>>, prev_ca |-> None,
                 sidechain_idxs |-> <<>>, sidechain_mass |-> <<>>,
                 new_atm_idx |-> 0, res_idx |-> 1], residues, 0)
    IN [Mapping("CACB", residues, st.top) EXCEPT
            !._ca_idxs = st.ca_idxs,
            !._sidechain_idxs = st.sidechain_idxs,
            !._sidechain_mass = st.sidechain_mass]

(***************************************************************************)
(* HeavyAtomMapping.__init__                                               *)
(***************************************************************************)
RECURSIVE BondList(_)
\* topology.bonds of the input as a list, in increasing order of the atoms
BondList(S) ==
    IF S = {} THEN <<>>
    ELSE LET b == CHOOSE x \in S :
                    \A y \in S : x[1] < y[1] \/ (x[1] = y[1] /\ x[2] <= y[2])
         IN <<b>> \o BondList(S \ {b})

RECURSIVE HeavyAtomAtoms(_, _, _)
\* `for atom in residue.atoms`
HeavyAtomAtoms(st, newResidue, atoms) ==
    IF atoms = <<>> THEN st
    ELSE LET atom == Head(atoms) IN
         IF "H" # atom.element
         THEN LET new_atom == Len(st.top.atoms) IN
              HeavyAtomAtoms(
                [st EXCEPT
                    !.top = add_atom(@, atom.name, atom.element, newResidue,
                                     st.atm_idx),
                    !.heavy_atom_idxs = Append(@, <<atom.index, new_atom>>),
                    !.atm_idx = @ + 1],
                newResidue, Tail(atoms))
         ELSE HeavyAtomAtoms(st, newResidue, Tail(atoms))

RECURSIVE HeavyAtomResidues(_, _, _)
\* `for residue in chain.residues`
HeavyAtomResidues(st, newChain, rs) ==
    IF rs = <<>> THEN st
    ELSE LET residue == Head(rs)
             newResidue == Len(st.top.residues)
             st1 == [st EXCEPT !.top = add_residue(@, residue.name, newChain,
                                                   st.res_idx)]
             st2 == HeavyAtomAtoms(st1, newResidue, residue.atoms)
         IN HeavyAtomResidues([st2 EXCEPT !.res_idx = @ + 1], newChain, Tail(rs))

RECURSIVE HeavyAtomChains(_, _, _)
HeavyAtomChains(st, residues, c) ==
    IF c >= NChains(residues) THEN st
    ELSE HeavyAtomChains(
            HeavyAtomResidues([st EXCEPT !.top = add_chain(@)], st.top.nchains,
                              ResiduesOfChain(residues, c)),
            residues, c + 1)

RECURSIVE HeavyAtomBonds(_, _, _)
\* `for atm1, atm2 in topology.bonds`: copy the bonds whose two atoms were kept
HeavyAtomBonds(t, heavy_atom_idxs, bonds) ==
    IF bonds = <<>> THEN t
    ELSE LET kept == {heavy_atom_idxs[i][1] : i \in DOMAIN heavy_atom_idxs}
             atom_mapping(a) ==
                heavy_atom_idxs[CHOOSE i \in DOMAIN heavy_atom_idxs :
                                    heavy_atom_idxs[i][1] = a][2]
             b == Head(bonds)
         IN IF b[1] \in kept /\ b[2] \in kept
            THEN HeavyAtomBonds(add_bond(t, atom_mapping(b[1]), atom_mapping(b[2])),
                                heavy_atom_idxs, Tail(bonds))
            ELSE HeavyAtomBonds(t, heavy_atom_idxs, Tail(bonds))

HeavyAtomMapping(top) ==
    LET residues == RefResidues(top)
        st == HeavyAtomChains([top |-> Topology, heavy_atom_idxs |-> <<>>,
                               atm_idx |-> 0, res_idx |-> 1], residues, 0)
        t == HeavyAtomBonds(st.top, st.heavy_atom_idxs, BondList(RefBonds(residues)))
    IN [Mapping("All-Atom", residues, t) EXCEPT
            !._heavy_atom_idxs = st.heavy_atom_idxs]

(***************************************************************************)
(* AwsemMapping.__init__                                                   *)
(***************************************************************************)
\* "Add bonds to previous CA and O" (lines 495-503)
AwsemBackboneBonds(t, prev_ca, prev_o, new_ca) ==
    IF prev_ca = None /\ prev_o = None THEN t
    ELSE add_bond(add_bond(t, prev_ca, new_ca), prev_o, new_ca)

\* body of `for residue in chain._residues`
AwsemResidue(st, newChain, residue) ==
    LET newResidue == Len(st.top.residues)
        t1 == add_residue(st.top, residue.name, newChain, st.res_idx)
        new_ca == Len(t1.atoms)
        t2 == add_atom(t1, "CA", "C", newResidue, st.atm_idx)
        CA_idx == FirstNamed(residue, "CA")
        cacbo1 == Append(st.CACBO_idxs, <<CA_idx, new_ca>>)
        new_o == Len(t2.atoms)
        t3 == add_atom(t2, "O", "O", newResidue, st.atm_idx + 1)
        O_idx == FirstNamed(residue, "O")
        cacbo2 == Append(cacbo1, <<O_idx, new_o>>)
        t4 == add_bond(t3, new_ca, new_o)
        new_b == Len(t4.atoms)
        t5 == IF residue.name = "GLY"
              THEN add_bond(add_atom(t4, "HB", "H", newResidue, st.atm_idx + 2),
                            new_ca, new_b)
              ELSE add_bond(add_atom(t4, "CB", "C", newResidue, st.atm_idx + 2),
                            new_ca, new_b)
        t6 == AwsemBackboneBonds(t5, st.prev_ca, st.prev_o, new_ca)
    IN [top |-> t6,
        CACBO_idxs |-> IF residue.name = "GLY" THEN cacbo2
                       ELSE Append(cacbo2, <<FirstNamed(residue, "CB"), new_b>>),
        HB_idxs |-> IF residue.name = "GLY"
                    THEN Append(st.HB_idxs,
                                <<FirstNamed(residue, "N"), CA_idx, O_idx, new_b>>)
                    ELSE st.HB_idxs,
        atm_idx |-> st.atm_idx + 3, res_idx |-> st.res_idx + 1,
        prev_ca |-> new_ca, prev_o |-> new_o]

RECURSIVE AwsemResidues(_, _, _)
AwsemResidues(st, newChain, rs) ==
    IF rs = <<>> THEN st
    ELSE AwsemResidues(AwsemResidue(st, newChain, Head(rs)), newChain, Tail(rs))

RECURSIVE AwsemChains(_, _, _)
AwsemChains(st, residues, c) ==
    IF c >= NChains(residues) THEN st
    ELSE AwsemChains(
            AwsemResidues([st EXCEPT !.top = add_chain(@)], st.top.nchains,
                          ResiduesOfChain(residues, c)),
            residues, c + 1)

AwsemMapping(top) ==
    LET residues == RefResidues(top)
        st == AwsemChains([top |-> Topology, CACBO_idxs |-> <<>>, HB_idxs |-> <<>>,
                           atm_idx |-> 0, res_idx |-> 1, prev_ca |-> None,
                           prev_o |-> None], residues, 0)
    IN [Mapping("AWSEM", residues, st.top) EXCEPT
            !._CACBO_idxs = st.CACBO_idxs, !._HB_idxs = st.HB_idxs]

(***************************************************************************)
(* State machine of a mapping: one constructor call per object             *)
(***************************************************************************)
BuildCalpha ==
    /\ mapping = NoMapping
    /\ \E top \in Topologies : mapping' = CalphaMapping(top)
    /\ UNCHANGED <<hvars, ret, dvars>>

BuildCalphaCbeta ==
    /\ mapping = NoMapping
    /\ \E top \in Topologies : mapping' = CalphaCbetaMapping(top)
    /\ UNCHANGED <<hvars, ret, dvars>>

BuildHeavyAtom ==
    /\ mapping = NoMapping
    /\ \E top \in Topologies : mapping' = HeavyAtomMapping(top)
    /\ UNCHANGED <<hvars, ret, dvars>>

BuildAwsem ==
    /\ mapping = NoMapping
    /\ \E top \in Topologies : mapping' = AwsemMapping(top)
    /\ UNCHANGED <<hvars, ret, dvars>>

NextM == BuildCalpha \/ BuildCalphaCbeta \/ BuildHeavyAtom \/ BuildAwsem

SpecM == Init /\ [][NextM]_vars

(***************************************************************************)
(* Operations on a built mapping.  Their inputs are the topologies of at   *)
(* most MaxTotal residues and trajectories of the all-atom input.          *)
(***************************************************************************)
NRes(top) == SumSeq([c \in DOMAIN top |-> Len(top[c])])

OpTopologies == {top \in Topologies : NRes(top) <= MaxTotal}

MAPPINGS == {"CA", "CACB", "All-Atom", "AWSEM"}

assign_mapping(code, top) ==
    CASE code = "CA" -> CalphaMapping(top)
      [] code = "CACB" -> CalphaCbetaMapping(top)
      [] code = "All-Atom" -> HeavyAtomMapping(top)
      [] code = "AWSEM" -> AwsemMapping(top)

\* a frame of n atoms: atom a sits at (a + 1) * (a + 1 + k), so that no two
\* atoms of a frame share a coordinate
Xyz(k, n) == [i \in 1..n |-> i * (i + k)]

\* trajectories of the all-atom input: one frame, and two frames
RefTrajs(residues) ==
    { [f \in DOMAIN ks |-> Xyz(ks[f], NAtomsOf(residues))] :
        ks \in {<<1>>, <<2, 1>>} }

\* np.zeros((traj.n_frames, self.topology.n_atoms, 3))
Zeros(traj, t) == [f \in DOMAIN traj |-> [b \in DOMAIN t.atoms |-> 0]]

\* Calpha_map_traj reading the new index of a bead instead of the old one
Calpha_map_traj_new(m, traj) ==
    [err |-> "none",
     xyz |-> [f \in DOMAIN traj |->
                [i \in DOMAIN m._ca_idxs |-> X(traj[f], m._ca_idxs[i][2])]]]

\* CalphaMapping.map_traj: traj.xyz[:, self._ca_idxs[:,0], :]
Calpha_map_traj(m, traj) ==
    [err |-> "none",
     xyz |-> [f \in DOMAIN traj |->
                [i \in DOMAIN m._ca_idxs |-> X(traj[f], m._ca_idxs[i][1])]]]

\* HeavyAtomMapping.map_traj: traj.xyz[:, self._heavy_atom_idxs[:,0], :]
HeavyAtom_map_traj(m, traj) ==
    [err |-> "none",
     xyz |-> [f \in DOMAIN traj |->
                [i \in DOMAIN m._heavy_atom_idxs |->
                    X(traj[f], m._heavy_atom_idxs[i][1])]]]

\* np.sum(frm.T*sc_mass/tot_mass, axis=1): centre of mass of the atoms
\* old_idxs of a frame (exact when the side chain has one heavy atom)
CenterOfMass(frm, old_idxs, sc_mass) ==
    SumSeq([i \in DOMAIN old_idxs |-> X(frm, old_idxs[i]) * sc_mass[i]])
        \div SumSeq(sc_mass)

RECURSIVE CalphaCbeta_map_traj_loop(_, _, _, _)
\* `for res in self.topology.residues`, from the residue of index r on;
\* np.array(map(...)) is read as the Python 2 the module is written in
CalphaCbeta_map_traj_loop(m, traj, cacb_xyz, r) ==
    IF r >= Len(m.topology.residues) THEN cacb_xyz
    ELSE LET res == m.topology.residues[r + 1]
             x1 == [f \in DOMAIN traj |->
                      [cacb_xyz[f] EXCEPT ![m._ca_idxs[r + 1][2] + 1] =
                            X(traj[f], m._ca_idxs[r + 1][1])]]
             x2 == IF res.name # "GLY"
                   THEN LET old_idxs == m._sidechain_idxs[r + 1][1]
                            new_idx == m._sidechain_idxs[r + 1][2]
                            sc_mass == m._sidechain_mass[r + 1]
                        IN [f \in DOMAIN traj |->
                              [x1[f] EXCEPT ![new_idx + 1] =
                                    CenterOfMass(traj[f], old_idxs, sc_mass)]]
                   ELSE x1
         IN CalphaCbeta_map_traj_loop(m, traj, x2, r + 1)

\* CalphaCbetaMapping.map_traj
CalphaCbeta_map_traj(m, traj) ==
    [err |-> "none",
     xyz |-> CalphaCbeta_map_traj_loop(m, traj, Zeros(traj, m.topology), 0)]

\* weights for creating glycine hydrogens, in millionths
HB_coeff_N == -946747

HB_coeff_CA == 2503520

HB_coeff_O == -620388

\* the unit of the coefficients: AWSEM coordinates are counted in millionths
Micro == 1000000

\* np.array(HB_idxs): the array of an empty list has one dimension
HBArray(HB_idxs) == [ndim |-> IF Len(HB_idxs) = 0 THEN 1 ELSE 2, rows |-> HB_idxs]

RECURSIVE AssignRows(_, _, _, _)
\* xyz[:, idxs[:,1], :] = values, row by row from row i on
AssignRows(xyz, idxs, values, i) ==
    IF i > Len(idxs) THEN xyz
    ELSE AssignRows([f \in DOMAIN xyz |->
                        [xyz[f] EXCEPT ![idxs[i] + 1] = values[f][i]]],
                    idxs, values, i + 1)

\* AwsemMapping.map_traj
Awsem_map_traj(m, traj) ==
    LET cacbo == m._CACBO_idxs
        hb == HBArray(m._HB_idxs)
        x1 == AssignRows(Zeros(traj, m.topology),
                         [i \in DOMAIN cacbo |-> cacbo[i][2]],
                         [f \in DOMAIN traj |->
                            [i \in DOMAIN cacbo |-> Micro * X(traj[f], cacbo[i][1])]],
                         1)
    IN IF hb.ndim # 2
       THEN [err |-> "IndexError", xyz |-> <<>>]
       ELSE [err |-> "none",
             xyz |-> AssignRows(x1,
                        [i \in DOMAIN hb.rows |-> hb.rows[i][4]],
                        [f \in DOMAIN traj |->
                            [i \in DOMAIN hb.rows |->
                                HB_coeff_N * X(traj[f], hb.rows[i][1])
                                + HB_coeff_CA * X(traj[f], hb.rows[i][2])
                                + HB_coeff_O * X(traj[f], hb.rows[i][3])]],
                        1)]

\* mapping.map_traj(traj) of the variant of m
map_traj(m, traj) ==
    CASE m.variant = "CA" -> Calpha_map_traj(m, traj)
      [] m.variant = "CACB" -> CalphaCbeta_map_traj(m, traj)
      [] m.variant = "All-Atom" -> HeavyAtom_map_traj(m, traj)
      [] m.variant = "AWSEM" -> Awsem_map_traj(m, traj)

(***************************************************************************)
(* mdtraj accessors used by the mappings.  A residue or an atom is         *)
(* identified by its index in the topology.                                *)
(***************************************************************************)
\* Python's s[i] on a list: a negative index counts from the end
PyIndex(s, i) ==
    IF 0 <= i /\ i < Len(s) THEN [err |-> "none", val |-> s[i + 1]]
    ELSE IF i < 0 /\ -i <= Len(s) THEN [err |-> "none", val |-> s[Len(s) + i + 1]]
    ELSE [err |-> "IndexError", val |-> None]

\* topology.residue(i).atom(k): both index plain Python lists
ResidueAtom(t, i, k) ==
    LET res == PyIndex(t.residues, i)
    IN IF res.err # "none" THEN res ELSE PyIndex(res.val.atoms, k)

\* [res.index for res in chain.residues]
ChainResidues(t, c) ==
    LET idxs == [r \in DOMAIN t.residues |-> r - 1]
    IN SelectSeq(idxs, LAMBDA r : t.residues[r + 1].chain = c)

\* [atom.index for atom in chain.atoms]
ChainAtoms(t, c) ==
    LET idxs == [a \in DOMAIN t.atoms |-> a - 1]
    IN SelectSeq(idxs, LAMBDA a : ChainOfAtom(t, a) = c)

\* chain.residue(i).atom(0): chain._residues is indexed by position in the chain
ChainResidueAtom0(t, c, i) ==
    LET res == PyIndex(ChainResidues(t, c), i)
    IN IF res.err # "none" THEN res
       ELSE PyIndex(t.residues[res.val + 1].atoms, 0)

(***************************************************************************)
(* _residue_to_atom_contacts                                               *)
(***************************************************************************)
RECURSIVE Calpha_residue_to_atom_contacts(_, _)
Calpha_residue_to_atom_contacts(m, residue_contacts) ==
    IF residue_contacts = <<>> THEN <<>>
    ELSE LET nres == m.topology.residues[Head(residue_contacts)[1] + 1]
             kres == m.topology.residues[Head(residue_contacts)[2] + 1]
             ca_n == nres.atoms[1]
             ca_k == kres.atoms[1]
         IN << <<ca_n, ca_k>> >>
            \o Calpha_residue_to_atom_contacts(m, Tail(residue_contacts))

RECURSIVE CalphaCbeta_residue_to_atom_contacts_ca_only(_, _)
\* CalphaCbeta_residue_to_atom_contacts without the Cbeta-Cbeta contact
CalphaCbeta_residue_to_atom_contacts_ca_only(m, residue_contacts) ==
    IF residue_contacts = <<>> THEN <<>>
    ELSE LET nres == m.topology.residues[Head(residue_contacts)[1] + 1]
             kres == m.topology.residues[Head(residue_contacts)[2] + 1]
         IN << <<nres.atoms[1], kres.atoms[1]>> >>
            \o CalphaCbeta_residue_to_atom_contacts_ca_only(m, Tail(residue_contacts))

RECURSIVE CalphaCbeta_residue_to_atom_contacts(_, _)
CalphaCbeta_residue_to_atom_contacts(m, residue_contacts) ==
    IF residue_contacts = <<>> THEN <<>>
    ELSE LET nres == m.topology.residues[Head(residue_contacts)[1] + 1]
             kres == m.topology.residues[Head(residue_contacts)[2] + 1]
             ca_n == nres.atoms[1]
             ca_k == kres.atoms[1]
         IN (IF nres.name # "GLY" /\ kres.name # "GLY"
             THEN << <<ca_n, ca_k>>, <<nres.atoms[2], kres.atoms[2]>> >>
             ELSE << <<ca_n, ca_k>> >>)
            \o CalphaCbeta_residue_to_atom_contacts(m, Tail(residue_contacts))

_residue_to_atom_contacts(m, residue_contacts) ==
    IF m.variant = "CA"
    THEN Calpha_residue_to_atom_contacts(m, residue_contacts)
    ELSE CalphaCbeta_residue_to_atom_contacts(m, residue_contacts)

(***************************************************************************)
(* _assign_sbm_angles and _assign_sbm_dihedrals.  Each returns the mapping *)
(* after the call and the exception raised, if any.                        *)
(***************************************************************************)
\* (s[i], s[i + 1], ..., s[i + n - 1]) for i in range(len(s) - (n - 1))
Windows(s, n) ==
    [i \in 1..(IF Len(s) >= n THEN Len(s) - n + 1 ELSE 0) |->
        [j \in 1..n |-> s[i + j - 1]]]

\* Calpha_angles over the atoms of the topology, the chains not told apart
Calpha_angles_topology(t, c, n) ==
    Windows([a \in DOMAIN t.atoms |-> a - 1], n)

RECURSIVE Calpha_angles(_, _, _)
\* `for chain in self.topology.chains` of CalphaMapping, windows of n atoms
Calpha_angles(t, c, n) ==
    IF c >= t.nchains THEN <<>>
    ELSE Windows(ChainAtoms(t, c), n) \o Calpha_angles(t, c + 1, n)

Calpha_assign_sbm_angles(m) ==
    [m |-> [m EXCEPT !._angles = Calpha_angles(m.topology, 0, 3)],
     err |-> "none"]

Calpha_assign_sbm_dihedrals(m) ==
    [m |-> [m EXCEPT !._improper_dihedrals = <<>>,
                     !._dihedrals = Calpha_angles(m.topology, 0, 4)],
     err |-> "none"]

\* [atom for atom in chain.atoms if atom.name == "CA"]
ca_atoms(t, c) ==
    SelectSeq(ChainAtoms(t, c), LAMBDA a : t.atoms[a + 1].name = "CA")

RECURSIVE CalphaCbeta_cb_angles(_, _, _, _)
\* `for res in chain.residues` of _assign_sbm_angles, from the k-th residue
\* of chain c on; st is [tuples, err]
CalphaCbeta_cb_angles(t, c, k, st) ==
    LET rs == ChainResidues(t, c) IN
    IF st.err # "none" \/ k > Len(rs) THEN st
    ELSE LET index == rs[k]
             res == t.residues[index + 1]
         IN IF res.name = "GLY"
            THEN CalphaCbeta_cb_angles(t, c, k + 1, st)
            ELSE LET ca == res.atoms[1]
                     cb == res.atoms[2]
                     prev_ca == ChainResidueAtom0(t, c, index - 1)
                     next_ca == ChainResidueAtom0(t, c, index + 1)
                     st1 ==
                        IF index = 0
                        THEN IF next_ca.err # "none"
                             THEN [st EXCEPT !.err = next_ca.err]
                             ELSE [st EXCEPT !.tuples =
                                        Append(@, <<cb, ca, next_ca.val>>)]
                        ELSE IF index + 1 = Len(rs)
                        THEN IF prev_ca.err # "none"
                             THEN [st EXCEPT !.err = prev_ca.err]
                             ELSE [st EXCEPT !.tuples =
                                        Append(@, <<prev_ca.val, ca, cb>>)]
                        ELSE IF prev_ca.err # "none"
                        THEN [st EXCEPT !.err = prev_ca.err]
                        ELSE IF next_ca.err # "none"
                        THEN [st EXCEPT !.err = next_ca.err]
                        ELSE [st EXCEPT !.tuples =
                                Append(Append(@, <<prev_ca.val, ca, cb>>),
                                       <<cb, ca, next_ca.val>>)]
                 IN CalphaCbeta_cb_angles(t, c, k + 1, st1)

RECURSIVE CalphaCbeta_angles(_, _, _)
\* `for chain in self.topology.chains` of _assign_sbm_angles
CalphaCbeta_angles(t, c, st) ==
    IF st.err # "none" \/ c >= t.nchains THEN st
    ELSE CalphaCbeta_angles(t, c + 1,
            CalphaCbeta_cb_angles(t, c, 1,
                [st EXCEPT !.tuples = @ \o Windows(ca_atoms(t, c), 3)]))

CalphaCbeta_assign_sbm_angles(m) ==
    LET st == CalphaCbeta_angles(m.topology, 0, [tuples |-> <<>>, err |-> "none"])
    IN [m |-> [m EXCEPT !._angles = st.tuples], err |-> st.err]

RECURSIVE CalphaCbeta_impropers(_, _, _, _)
\* `for res in chain.residues` of _assign_sbm_dihedrals, from the k-th
\* residue of chain c on; st is [tuples, err]
CalphaCbeta_impropers(t, c, k, st) ==
    LET rs == ChainResidues(t, c) IN
    IF st.err # "none" \/ k > Len(rs) THEN st
    ELSE LET num_residues == rs[Len(rs)]
             idx == rs[k]
             res == t.residues[idx + 1]
             check == idx = 0 \/ idx = num_residues \/ res.name = "GLY"
             cj == ChainResidueAtom0(t, c, idx - 1)
             ck == ChainResidueAtom0(t, c, idx + 1)
             st1 == IF check THEN st
                    ELSE IF cj.err # "none" THEN [st EXCEPT !.err = cj.err]
                    ELSE IF ck.err # "none" THEN [st EXCEPT !.err = ck.err]
                    ELSE [st EXCEPT !.tuples =
                            Append(@, <<res.atoms[1], cj.val, ck.val, res.atoms[2]>>)]
         IN CalphaCbeta_impropers(t, c, k + 1, st1)

RECURSIVE CalphaCbeta_dihedrals(_, _, _)
\* `for chain in self.topology.chains` of _assign_sbm_dihedrals; st is
\* [dihedrals, tuples, err], tuples being the improper dihedrals
CalphaCbeta_dihedrals(t, c, st) ==
    IF st.err # "none" \/ c >= t.nchains THEN st
    ELSE LET imp == CalphaCbeta_impropers(t, c, 1,
                        [tuples |-> st.tuples, err |-> "none"])
         IN CalphaCbeta_dihedrals(t, c + 1,
                [dihedrals |-> st.dihedrals \o Windows(ca_atoms(t, c), 4),
                 tuples |-> imp.tuples, err |-> imp.err])

CalphaCbeta_assign_sbm_dihedrals(m) ==
    LET st == CalphaCbeta_dihedrals(m.topology, 0,
                [dihedrals |-> <<>>, tuples |-> <<>>, err |-> "none"])
    IN [m |-> [m EXCEPT !._improper_dihedrals = st.tuples,
                        !._dihedrals = st.dihedrals],
        err |-> st.err]

_assign_sbm_angles(m) ==
    IF m.variant = "CA" THEN Calpha_assign_sbm_angles(m)
    ELSE CalphaCbeta_assign_sbm_angles(m)

_assign_sbm_dihedrals(m) ==
    IF m.variant = "CA" THEN Calpha_assign_sbm_dihedrals(m)
    ELSE CalphaCbeta_assign_sbm_dihedrals(m)

(***************************************************************************)
(* add_disulfides.  Each returns the mapping after the call and the        *)
(* exception raised, if any; what was done before the exception stays.     *)
(***************************************************************************)
\* the statements after the atoms of a pair are known: the bond b1-b2, the
\* two angles and the dihedral with the flanking atoms f1 and f2
DisulfideTuples(m, f1, b1, b2, f2) ==
    LET m1 == [m EXCEPT !.topology = add_bond(@, b1, b2)]
    IN IF m1._angles = NoAttr THEN [m |-> m1, err |-> "AttributeError"]
       ELSE LET m2 == [m1 EXCEPT !._angles =
                        Append(Append(@, <<f1, b1, b2>>), <<b1, b2, f2>>)]
            IN IF m2._dihedrals = NoAttr THEN [m |-> m2, err |-> "AttributeError"]
               ELSE [m |-> [m2 EXCEPT !._dihedrals = Append(@, <<f1, b1, b2, f2>>)],
                     err |-> "none"]

\* the first of the lookups that raised, or "none"
FirstErr(lookups) ==
    IF \A i \in DOMAIN lookups : lookups[i].err = "none" THEN "none"
    ELSE lookups[CHOOSE i \in DOMAIN lookups :
                    /\ lookups[i].err # "none"
                    /\ \A j \in 1..(i - 1) : lookups[j].err = "none"].err

RECURSIVE Calpha_add_disulfides(_, _)
Calpha_add_disulfides(m, disulfides) ==
    IF disulfides = <<>> THEN [m |-> m, err |-> "none"]
    ELSE LET pair == Head(disulfides)
             cys1 == ResidueAtom(m.topology, pair[1], 0)
             cys2 == ResidueAtom(m.topology, pair[2], 0)
             ca1 == ResidueAtom(m.topology, pair[1] - 1, 0)
             ca2 == ResidueAtom(m.topology, pair[2] - 1, 0)
             e == FirstErr(<<cys1, cys2, ca1, ca2>>)
             r == DisulfideTuples(m, ca1.val, cys1.val, cys2.val, ca2.val)
         IN IF e # "none" THEN [m |-> m, err |-> e]
            ELSE IF r.err # "none" THEN r
            ELSE Calpha_add_disulfides(r.m, Tail(disulfides))

RECURSIVE CalphaCbeta_add_disulfides(_, _)
CalphaCbeta_add_disulfides(m, disulfides) ==
    IF disulfides = <<>> THEN [m |-> m, err |-> "none"]
    ELSE LET pair == Head(disulfides)
             ca1 == ResidueAtom(m.topology, pair[1], 0)
             ca2 == ResidueAtom(m.topology, pair[2], 0)
             cb1 == ResidueAtom(m.topology, pair[1], 1)
             cb2 == ResidueAtom(m.topology, pair[2], 1)
             e == FirstErr(<<ca1, ca2, cb1, cb2>>)
             r == DisulfideTuples(m, ca1.val, cb1.val, cb2.val, ca2.val)
         IN IF e # "none" THEN [m |-> m, err |-> e]
            ELSE IF r.err # "none" THEN r
            ELSE CalphaCbeta_add_disulfides(r.m, Tail(disulfides))

add_disulfides(m, disulfides) ==
    IF m.variant = "CA" THEN Calpha_add_disulfides(m, disulfides)
    ELSE CalphaCbeta_add_disulfides(m, disulfides)

(***************************************************************************)
(* State machines of the operations on a mapping                           *)
(***************************************************************************)
\* residue pairs (n, k) with n before k
ResiduePairs(m) ==
    LET n == Len(m.topology.residues)
    IN {p \in (0..(n - 1)) \X (0..(n - 1)) : p[1] < p[2]}

\* lists of one residue pair, and of two pairs in increasing order
ResiduePairLists(m) ==
    {<<p>> : p \in ResiduePairs(m)}
    \cup {l \in ResiduePairs(m) \X ResiduePairs(m) :
                \/ l[1][1] < l[2][1]
                \/ (l[1][1] = l[2][1] /\ l[1][2] < l[2][2])}

HasTuples(m) == m.variant \in {"CA", "CACB"}

\* assign_mapping(code, topology)
AssignMapping ==
    /\ mapping = NoMapping
    /\ \E code \in MAPPINGS, top \in OpTopologies :
            mapping' = assign_mapping(code, top)
    /\ UNCHANGED <<hvars, ret, dvars>>

MapTraj ==
    /\ mapping # NoMapping
    /\ \E traj \in RefTrajs(mapping.ref) :
        LET r == map_traj(mapping, traj) IN
        ret' = [NoRet EXCEPT !.op = "map_traj", !.traj = traj, !.err = r.err,
                             !.out = r.xyz]
    /\ UNCHANGED <<hvars, mapping, dvars>>

ResidueToAtomContacts ==
    /\ HasTuples(mapping)
    /\ \E residue_contacts \in ResiduePairLists(mapping) :
        ret' = [NoRet EXCEPT !.op = "_residue_to_atom_contacts",
                             !.term = residue_contacts,
                             !.out = _residue_to_atom_contacts(mapping,
                                                               residue_contacts)]
    /\ UNCHANGED <<hvars, mapping, dvars>>

NextP == AssignMapping \/ MapTraj \/ ResidueToAtomContacts

SpecP == Init /\ [][NextP]_vars

\* _assign_sbm_angles(); the call may be repeated, also after add_disulfides
AssignSbmAngles ==
    /\ HasTuples(mapping)
    /\ LET r == _assign_sbm_angles(mapping) IN
        /\ mapping' = r.m
        /\ ret' = [NoRet EXCEPT !.op = "_assign_sbm_angles", !.err = r.err]
    /\ UNCHANGED <<hvars, dvars>>

AssignSbmDihedrals ==
    /\ HasTuples(mapping)
    /\ LET r == _assign_sbm_dihedrals(mapping) IN
        /\ mapping' = r.m
        /\ ret' = [NoRet EXCEPT !.op = "_assign_sbm_dihedrals", !.err = r.err]
    /\ UNCHANGED <<hvars, dvars>>

\* the bonds of the topology beyond those of the constructor, which bonds
\* every bead but the first CA of each chain to an earlier bead
NLinks(m) ==
    Len(m.topology.bonds) - (Len(m.topology.atoms) - m.topology.nchains)

\* add_disulfides(disulfides), on a mapping no disulfide bond was added to
AddDisulfides ==
    /\ HasTuples(mapping)
    /\ ret.op # "add_disulfides"
    /\ NLinks(mapping) = 0
    /\ \E disulfides \in ResiduePairLists(mapping) :
        LET r == add_disulfides(mapping, disulfides) IN
        /\ mapping' = r.m
        /\ ret' = [NoRet EXCEPT !.op = "add_disulfides", !.term = disulfides,
                                !.err = r.err]
    /\ UNCHANGED <<hvars, dvars>>

NextD == AssignMapping \/ AssignSbmAngles \/ AssignSbmDihedrals \/ AddDisulfides

SpecD == Init /\ [][NextD]_vars

(***************************************************************************)
(* potentials/__init__.py: SBMHamilonian.  The file does not compile as it *)
(* stands (the `if` statements of lines 172 and 195 lack their colon);     *)
(* the methods are modelled as written, those two statements read as `if`  *)
(* statements over the block indented below them.  A call returns the      *)
(* exception raised and whether a warning was emitted; no path of these    *)
(* methods reaches a statement that changes the Hamiltonian or the mapping.*)
(***************************************************************************)
\* a == b of two Python values: a dict never equals a list
PyEq(a, b) == a.type = b.type /\ a.items = b.items

\* d[key]
DictGet(d, key) ==
    IF \E kv \in d.items : kv[1] = key
    THEN [err |-> "none", val |-> (CHOOSE kv \in d.items : kv[1] = key)[2]]
    ELSE [err |-> "KeyError", val |-> None]

use_sbm_default_parameters ==
    [type |-> "dict",
     items |-> {<<"kb", 20000>>, <<"ka", 40>>, <<"kd", 1>>, <<"eps", 1>>}]

use_sbm_default_potentials ==
    [type |-> "dict",
     items |-> {<<"bond", "HARMONIC_BOND">>, <<"angle", "HARMONIC_ANGLE">>,
                <<"dihedral", "COSINE_DIHEDRAL">>}]

\* default_sbm_parameters_warning, default_sbm_potentials_warning and
\* missing_reference_warning call warning.warn; the module imports
\* `warnings`, so the call raises before anything is emitted
WarningHelper == "NameError"

\* raise AttributeError("Need to set reference structure model.set_reference()")
MissingReference == "AttributeError: Need to set reference structure"

\* hasattr(Model, "ref_traj")
HasRefTraj(Model) == Model.ref_traj # NoAttr

SbmRaise(err) == [err |-> err, warn |-> FALSE]

SbmReturn == [err |-> "none", warn |-> FALSE]

add_sbm_potentials(Model) ==
    IF ~HasRefTraj(Model) THEN SbmRaise(MissingReference)
    \* Model.structure_mapping.assign_sbm_angles(): the mappings define
    \* _assign_sbm_angles only
    ELSE SbmRaise("AttributeError")

add_sbm_bonds(default_parameters, default_potentials, Model) ==
    LET top == Model.structure_mapping.topology IN
    IF PyEq(default_parameters, EmptyList) THEN SbmRaise(WarningHelper)
    ELSE IF PyEq(default_potentials, EmptyList) THEN SbmRaise(WarningHelper)
    \* kb and code are assigned inside the block of the second `if` only
    ELSE IF HasRefTraj(Model)
    THEN IF top.bonds = <<>> THEN SbmReturn
         ELSE SbmRaise("UnboundLocalError")
    ELSE SbmRaise(WarningHelper)

add_sbm_angles(default_parameters, default_potentials, Model) ==
    LET top == Model.structure_mapping.topology
        ka == DictGet(default_parameters, "ka")
        code == DictGet(default_potentials, "angles")
    IN
    IF PyEq(default_parameters, EmptyList) THEN SbmRaise(WarningHelper)
    ELSE IF PyEq(default_potentials, EmptyList) THEN SbmRaise(WarningHelper)
    ELSE IF HasRefTraj(Model)
    THEN IF ka.err # "none" THEN SbmRaise(ka.err)
         ELSE IF code.err # "none" THEN SbmRaise(code.err)
         ELSE IF top.bonds = <<>> THEN SbmReturn
         \* self._add_bond(code, atm1, atm2, kb, r0): kb is no name of the method
         ELSE SbmRaise("NameError")
    ELSE SbmRaise(WarningHelper)

add_sbm_contacts(default_parameters, Model) ==
    IF PyEq(default_parameters, EmptyList) THEN SbmRaise(WarningHelper)
    \* cts.residue_contacts(Model.ref_traj) reads the attribute before the
    \* hasattr test
    ELSE IF ~HasRefTraj(Model) THEN SbmRaise("AttributeError")
    \* Model.structure_mapping.residue_to_atom_contacts: the mappings define
    \* _residue_to_atom_contacts only
    ELSE SbmRaise("AttributeError")

\* the Model objects of a mapping: with a reference trajectory and without
RefModels(m) ==
    { [structure_mapping |-> m, ref_traj |-> x] :
        x \in RefTrajs(m.ref) \cup {NoAttr} }

SbmRet(op, Model, r) ==
    [NoRet EXCEPT !.op = op, !.traj = Model.ref_traj, !.err = r.err,
                  !.warn = r.warn]

UseSbmDefaultParameters ==
    /\ _default_parameters' = use_sbm_default_parameters
    /\ ret' = [NoRet EXCEPT !.op = "use_sbm_default_parameters"]
    /\ UNCHANGED <<hvars, mapping, _default_potentials>>

UseSbmDefaultPotentials ==
    /\ _default_potentials' = use_sbm_default_potentials
    /\ ret' = [NoRet EXCEPT !.op = "use_sbm_default_potentials"]
    /\ UNCHANGED <<hvars, mapping, _default_parameters>>

AddSbmPotentials ==
    /\ mapping # NoMapping
    /\ \E Model \in RefModels(mapping) :
        ret' = SbmRet("add_sbm_potentials", Model, add_sbm_potentials(Model))
    /\ UNCHANGED <<hvars, mapping, dvars>>

AddSbmBonds ==
    /\ mapping # NoMapping
    /\ \E Model \in RefModels(mapping) :
        ret' = SbmRet("add_sbm_bonds", Model,
                      add_sbm_bonds(_default_parameters, _default_potentials, Model))
    /\ UNCHANGED <<hvars, mapping, dvars>>

AddSbmAngles ==
    /\ mapping # NoMapping
    /\ \E Model \in RefModels(mapping) :
        ret' = SbmRet("add_sbm_angles", Model,
                      add_sbm_angles(_default_parameters, _default_potentials, Model))
    /\ UNCHANGED <<hvars, mapping, dvars>>

AddSbmContacts ==
    /\ mapping # NoMapping
    /\ \E Model \in RefModels(mapping) :
        ret' = SbmRet("add_sbm_contacts", Model,
                      add_sbm_contacts(_default_parameters, Model))
    /\ UNCHANGED <<hvars, mapping, dvars>>

NextS ==
    \/ AssignMapping \/ AssignSbmAngles
    \/ UseSbmDefaultParameters \/ UseSbmDefaultPotentials
    \/ AddSbmPotentials \/ AddSbmBonds \/ AddSbmAngles \/ AddSbmContacts

SpecS == Init /\ [][NextS]_vars

(***************************************************************************)
(* Properties of the Hamiltonian (SpecH)                                   *)
(***************************************************************************)
\* the collection of a category
Coll(cat) ==
    CASE cat = "bond" -> _bonds
      [] cat = "angle" -> _angles
      [] cat = "dihedral" -> _dihedrals
      [] OTHER -> _pairs

SameIdentity(t, u) == t.label = u.label /\ t.atoms = u.atoms

DistinctIdentities(coll) ==
    \A i, j \in DOMAIN coll : SameIdentity(coll[i], coll[j]) => i = j

\* C1: after any sequence of add calls no collection holds two terms with
\* the same type tag and the same atom tuple (a second add over the same
\* tag and atoms is a no-op, whatever its parameters).
C1_NoDuplicateIdentity ==
    /\ DistinctIdentities(_bonds)
    /\ DistinctIdentities(_angles)
    /\ DistinctIdentities(_dihedrals)
    /\ DistinctIdentities(_pairs)

\* C2: an add call is rejected as a duplicate only when the collection
\* holds a term with the same type tag and the same ordered atom tuple.
C2_RejectedOnlySameIdentity ==
    (ret.op = "add" /\ ret.warn) =>
        \E i \in DOMAIN Coll(ret.cat) : SameIdentity(Coll(ret.cat)[i], ret.term)

\* C3: an add call with a tag that is not in the registry of its category
\* fails with the lookup error and leaves the four collections unchanged.
C3_UnknownTagFails ==
    [][(ret'.op = "add" /\ ret'.code \notin DOMAIN Registry(ret'.cat)) =>
            (ret'.err = "KeyError" /\ UNCHANGED hvars)]_vars

C3_Witness ==
    /\ ret.op = "add"
    /\ ret.code = "BOGUS"
    /\ ret.err = "KeyError"
    /\ NTerms(_bonds, _angles, _dihedrals, _pairs) > 0

\* C4: a bulk add that fails leaves the collections as they were before
\* the call: none of the entries of the batch has been added.
C4_BulkAllOrNothing ==
    [][(ret'.op = "bulk" /\ ret'.err # "none") => UNCHANGED hvars]_vars

CalcOf(cat, traj, sum) ==
    CASE cat = "bond" -> calc_bond_energy(_bonds, traj, sum)
      [] cat = "angle" -> calc_angle_energy(_angles, traj, sum)
      [] cat = "dihedral" -> calc_dihedral_energy(_dihedrals, traj, sum)
      [] OTHER -> calc_pair_energy(_pairs, traj, sum)

FrameSums(m) == [f \in DOMAIN m |-> SumSeq(m[f])]

\* C5: for every category, term set and trajectory the aggregated energy
\* equals, frame by frame, the sum over the terms of the per-term energy
\* (and the two calls fail on the same inputs).
C5_AggregateIsSumOfTerms ==
    ret.op = "calc" =>
        LET other == CalcOf(ret.cat, ret.traj, ~ret.sum) IN
        /\ ret.err = other.err
        /\ ret.err = "none" =>
                IF ret.sum THEN ret.out = FrameSums(other.out)
                ELSE other.out = FrameSums(ret.out)

C5_Witness ==
    /\ ret.op = "calc"
    /\ ret.sum
    /\ ret.err = "none"
    /\ Len(Coll(ret.cat)) >= 2
    /\ \E f \in DOMAIN ret.out : ret.out[f] > 0

\* C6: an energy call on a category without terms returns, without error,
\* one zero per frame when aggregating and an n_frames-by-0 matrix when not.
C6_ZeroTermsZeroResult ==
    (ret.op = "calc" /\ Len(Coll(ret.cat)) = 0) =>
        /\ ret.err = "none"
        /\ ret.out = IF ret.sum THEN [f \in DOMAIN ret.traj |-> 0]
                     ELSE [f \in DOMAIN ret.traj |-> <<>>]

\* the k-th term in category order bonds, angles, dihedrals, pairs
KthTerm(k) ==
    IF k <= Len(_bonds) THEN _bonds[k]
    ELSE IF k <= Len(_bonds) + Len(_angles) THEN _angles[k - Len(_bonds)]
    ELSE IF k <= Len(_bonds) + Len(_angles) + Len(_dihedrals)
    THEN _dihedrals[k - Len(_bonds) - Len(_angles)]
    ELSE _pairs[k - Len(_bonds) - Len(_angles) - Len(_dihedrals)]

\* C7: describe() returns the description of every term exactly once, in
\* the order bonds, angles, dihedrals, pairs and in insertion order within
\* a category.
C7_DescribeEveryTerm ==
    ret.op \in {"describe", "describe_init"} =>
        ret.out = [k \in 1..NTerms(_bonds, _angles, _dihedrals, _pairs) |->
                        TermDescribe(KthTerm(k))]

(***************************************************************************)
(* Properties of the mappings (SpecM)                                      *)
(***************************************************************************)
Built == mapping.variant # "none"

\* the new indices recorded in the index tables of a mapping
NewIndices(m) ==
    {m._ca_idxs[i][2] : i \in DOMAIN m._ca_idxs}
    \cup {m._sidechain_idxs[i][2] :
            i \in {j \in DOMAIN m._sidechain_idxs : m._sidechain_idxs[j] # <<>>}}
    \cup {m._heavy_atom_idxs[i][2] : i \in DOMAIN m._heavy_atom_idxs}
    \cup {m._CACBO_idxs[i][2] : i \in DOMAIN m._CACBO_idxs}
    \cup {m._HB_idxs[i][4] : i \in DOMAIN m._HB_idxs}

\* number of beads the rule of the variant emits for an input residue
BeadsOf(variant, residue) ==
    CASE variant = "CA" -> 1
      [] variant = "CACB" -> IF residue.name = "GLY" THEN 1 ELSE 2
      [] variant = "AWSEM" -> 3
      [] OTHER -> Cardinality({i \in DOMAIN residue.atoms :
                                    residue.atoms[i].element # "H"})

RECURSIVE BeadsEmitted(_, _)
BeadsEmitted(variant, residues) ==
    IF residues = <<>> THEN 0
    ELSE BeadsOf(variant, Head(residues)) + BeadsEmitted(variant, Tail(residues))

\* C8: for every variant and input the atom indices of the coarse-grained
\* topology are exactly 0..N-1 in emission order, N the number of beads
\* emitted, and every new index of the index tables is one of them.
C8_DenseIndices ==
    Built =>
        LET atoms == mapping.topology.atoms IN
        /\ Len(atoms) = BeadsEmitted(mapping.variant, mapping.ref)
        /\ \A i \in DOMAIN atoms : atoms[i].index = i - 1
        /\ NewIndices(mapping) \subseteq 0..(Len(atoms) - 1)

C8_Witness ==
    /\ Built
    /\ mapping.variant = "CACB"
    /\ mapping.topology.nchains = 2
    /\ \E i \in DOMAIN mapping.ref : mapping.ref[i].name = "GLY"
    /\ mapping.ref[Len(mapping.ref)].name = "ALA"

HasBond(t, a, b) ==
    \E i \in DOMAIN t.bonds : t.bonds[i] = <<a, b>> \/ t.bonds[i] = <<b, a>>

\* C9: under the CA/CB variant a glycine maps to exactly one bead (CA), any
\* other residue to exactly two (CA at position 0, CB at position 1), the
\* CB bonded to the CA of its own residue.
C9_CalphaCbetaBeads ==
    (Built /\ mapping.variant = "CACB") =>
        LET t == mapping.topology IN
        /\ Len(t.residues) = Len(mapping.ref)
        /\ \A r \in DOMAIN t.residues :
              LET res == t.residues[r] IN
              /\ res.name = mapping.ref[r].name
              /\ IF res.name = "GLY"
                 THEN /\ Len(res.atoms) = 1
                      /\ t.atoms[res.atoms[1] + 1].name = "CA"
                 ELSE /\ Len(res.atoms) = 2
                      /\ t.atoms[res.atoms[1] + 1].name = "CA"
                      /\ t.atoms[res.atoms[2] + 1].name
                            = "CB" \o residue_code(res.name)
                      /\ HasBond(t, res.atoms[2], res.atoms[1])

C9_Witness ==
    /\ Built
    /\ mapping.variant = "CACB"
    /\ \E i, j \in DOMAIN mapping.ref :
          mapping.ref[i].name = "GLY" /\ mapping.ref[j].name = "ALA"

\* C10: under the CA, CA/CB and AWSEM variants every bond between beads of
\* two different residues joins consecutive residues of the same chain.
C10_NoBondAcrossChains ==
    (Built /\ mapping.variant \in {"CA", "CACB", "AWSEM"}) =>
        LET t == mapping.topology IN
        \A i \in DOMAIN t.bonds :
            LET r1 == t.atoms[t.bonds[i][1] + 1].residue
                r2 == t.atoms[t.bonds[i][2] + 1].residue
            IN r1 # r2 =>
                /\ Abs(r1 - r2) = 1
                /\ t.residues[r1 + 1].chain = t.residues[r2 + 1].chain

(***************************************************************************)
(* Properties of the operations on a mapping (SpecP, SpecD)                *)
(***************************************************************************)
\* the bead called name of residue r of the coarse-grained topology
BeadNamed(t, r, name) ==
    CHOOSE a \in 0..(Len(t.atoms) - 1) :
        t.atoms[a + 1].residue = r /\ t.atoms[a + 1].name = name

\* the side-chain bead of residue r: its bead that is not the CA
CbBead(t, r) ==
    CHOOSE a \in 0..(Len(t.atoms) - 1) :
        t.atoms[a + 1].residue = r /\ t.atoms[a + 1].name # "CA"

\* C11: after map_traj of the Calpha variant, bead 0 of residue r holds in
\* every frame the coordinate the CA atom of residue r has in the input
\* frame, for every residue, with any number of chains.
C11_CalphaProjectsSourceCA ==
    (ret.op = "map_traj" /\ mapping.variant = "CA") =>
        /\ ret.err = "none"
        /\ Len(ret.out) = Len(ret.traj)
        /\ \A f \in DOMAIN ret.traj :
            \A r \in 0..(Len(mapping.ref) - 1) :
                X(ret.out[f], mapping.topology.residues[r + 1].atoms[1])
                    = X(ret.traj[f], FirstNamed(mapping.ref[r + 1], "CA"))

\* a two-frame trajectory of a two-chain input projected by the Calpha variant
C11_Witness ==
    /\ ret.op = "map_traj"
    /\ mapping.variant = "CA"
    /\ ret.err = "none"
    /\ Len(ret.out) = 2
    /\ mapping.topology.nchains = 2
    /\ Len(mapping.ref) = MaxTotal
    /\ FirstNamed(mapping.ref[1], "CA") # mapping.ref[1].atoms[1].index

\* the coordinate the index-table rule of the variant gives bead b in a frame
BeadRule(m, frm, b) ==
    LET atom == m.topology.atoms[b + 1]
        res == m.ref[atom.residue + 1]
        sc == HeavySidechain(res)
    IN CASE m.variant = "CA" -> X(frm, FirstNamed(res, "CA"))
         [] m.variant = "All-Atom" -> X(frm, FirstNamed(res, atom.name))
         [] m.variant = "CACB" ->
                IF atom.name = "CA" THEN X(frm, FirstNamed(res, "CA"))
                ELSE SumSeq([i \in DOMAIN sc |-> X(frm, sc[i].index) * sc[i].mass])
                        \div SumSeq([i \in DOMAIN sc |-> sc[i].mass])
         [] m.variant = "AWSEM" ->
                IF atom.name = "HB"
                THEN HB_coeff_N * X(frm, FirstNamed(res, "N"))
                     + HB_coeff_CA * X(frm, FirstNamed(res, "CA"))
                     + HB_coeff_O * X(frm, FirstNamed(res, "O"))
                ELSE Micro * X(frm, FirstNamed(res, atom.name))

\* C12: map_traj succeeds for every variant and every topology the variant
\* builds, gives one output frame per input frame in the same order, and
\* gives every bead the coordinate of its index-table rule (copy, side-chain
\* centre of mass, HB combination), also for an AWSEM topology without
\* glycine and a Calpha/Cbeta topology of glycines only.
C12_MapTrajTotal ==
    ret.op = "map_traj" =>
        /\ ret.err = "none"
        /\ Len(ret.out) = Len(ret.traj)
        /\ \A f \in DOMAIN ret.traj :
            /\ Len(ret.out[f]) = Len(mapping.topology.atoms)
            /\ \A b \in 0..(Len(mapping.topology.atoms) - 1) :
                    X(ret.out[f], b) = BeadRule(mapping, ret.traj[f], b)

RECURSIVE ExpectedContacts(_, _)
\* per residue contact the CA-CA pair, and under Calpha/Cbeta the CB-CB pair
\* when neither input residue is a glycine
ExpectedContacts(m, residue_contacts) ==
    IF residue_contacts = <<>> THEN <<>>
    ELSE LET n == Head(residue_contacts)[1]
             k == Head(residue_contacts)[2]
             t == m.topology
         IN << <<BeadNamed(t, n, "CA"), BeadNamed(t, k, "CA")>> >>
            \o (IF /\ m.variant = "CACB"
                   /\ m.ref[n + 1].name # "GLY"
                   /\ m.ref[k + 1].name # "GLY"
                THEN << <<CbBead(t, n), CbBead(t, k)>> >>
                ELSE <<>>)
            \o ExpectedContacts(m, Tail(residue_contacts))

\* C13: _residue_to_atom_contacts gives, in the order of the residue
\* contacts, the CA-CA pair of each contact and, under Calpha/Cbeta only and
\* exactly when neither residue is a glycine, the CB-CB pair after it.
C13_ContactTranslation ==
    ret.op = "_residue_to_atom_contacts" =>
        ret.out = ExpectedContacts(mapping, ret.term)

\* the contact (0,2) of ALA-GLY-ALA gives two pairs under Calpha/Cbeta
C13_Witness ==
    /\ ret.op = "_residue_to_atom_contacts"
    /\ mapping.variant = "CACB"
    /\ ret.term = << <<0, 2>> >>
    /\ Len(mapping.ref) = 3
    /\ mapping.ref[1].name # "GLY"
    /\ mapping.ref[2].name = "GLY"
    /\ mapping.ref[3].name # "GLY"
    /\ Len(ret.out) = 2

\* an add_disulfides call has just been made
DisulfidesCalled == ret'.op = "add_disulfides" /\ ret.op # "add_disulfides"

\* the bead add_disulfides bonds in residue r: the CA, or the CB under
\* Calpha/Cbeta
LinkBead(m, r) ==
    IF m.variant = "CA" THEN BeadNamed(m.topology, r, "CA")
    ELSE CbBead(m.topology, r)

\* residue i has a residue before it in its chain, residue j one after it
HasPreceding(m, i) ==
    i >= 1 /\ m.topology.residues[i].chain = m.topology.residues[i + 1].chain

HasFollowing(m, j) ==
    /\ j + 2 <= Len(m.topology.residues)
    /\ m.topology.residues[j + 2].chain = m.topology.residues[j + 1].chain

\* both residues of the pair have the bead to bond
HasLinkBeads(m, pair) ==
    m.variant = "CACB" =>
        m.ref[pair[1] + 1].name # "GLY" /\ m.ref[pair[2] + 1].name # "GLY"

LinkablePair(m, pair) ==
    HasLinkBeads(m, pair) /\ HasPreceding(m, pair[1]) /\ HasFollowing(m, pair[2])

\* the tuples the pairs are to add: bonds as sets of two beads, angles, dihedrals
ExpectedLinks(m, disulfides) ==
    LET f1(p) == BeadNamed(m.topology, p[1] - 1, "CA")
        f2(p) == BeadNamed(m.topology, p[2] + 1, "CA")
        b1(p) == LinkBead(m, p[1])
        b2(p) == LinkBead(m, p[2])
    IN [bonds |-> [k \in DOMAIN disulfides |->
                        {b1(disulfides[k]), b2(disulfides[k])}],
        angles |-> [k \in 1..(2 * Len(disulfides)) |->
                        LET p == disulfides[(k + 1) \div 2]
                        IN IF k % 2 = 1 THEN <<f1(p), b1(p), b2(p)>>
                           ELSE <<b1(p), b2(p), f2(p)>>],
        dihedrals |-> [k \in DOMAIN disulfides |->
                        LET p == disulfides[k]
                        IN <<f1(p), b1(p), b2(p), f2(p)>>]]

\* C14: add_disulfides on a mapping whose angle and dihedral tuples are
\* assigned adds per pair (i,j) one bond between the CA beads (Calpha) or the
\* CB beads (Calpha/Cbeta) of i and j, two angle tuples and one dihedral
\* tuple, flanked by the CA bead of the residue before i and the CA bead of
\* the residue after j, and nothing else.
C14_DisulfideTuples ==
    [][ ( /\ DisulfidesCalled
          /\ mapping._angles # NoAttr
          /\ mapping._dihedrals # NoAttr
          /\ \A k \in DOMAIN ret'.term : LinkablePair(mapping, ret'.term[k]) )
        => LET e == ExpectedLinks(mapping, ret'.term)
               old == mapping.topology.bonds
               new == mapping'.topology.bonds
           IN /\ ret'.err = "none"
              /\ Len(new) = Len(old) + Len(e.bonds)
              /\ \A k \in DOMAIN old : new[k] = old[k]
              /\ \A k \in DOMAIN e.bonds :
                    {new[Len(old) + k][1], new[Len(old) + k][2]} = e.bonds[k]
              /\ mapping'._angles = mapping._angles \o e.angles
              /\ mapping'._dihedrals = mapping._dihedrals \o e.dihedrals
      ]_vars

\* C15: add_disulfides raises, and adds no bond, angle or dihedral tuple,
\* when the first pair names a residue without the bead to bond (a glycine
\* under Calpha/Cbeta), a first residue with no residue before it in its
\* chain or a second residue with none after it; no other residue stands in
\* for the missing one.
C15_DisulfideRejectsTerminus ==
    [][ ( /\ DisulfidesCalled
          /\ mapping._angles # NoAttr
          /\ mapping._dihedrals # NoAttr
          /\ ~LinkablePair(mapping, ret'.term[1]) )
        => /\ ret'.err # "none"
           /\ mapping'.topology = mapping.topology
           /\ mapping'._angles = mapping._angles
           /\ mapping'._dihedrals = mapping._dihedrals
      ]_vars

(***************************************************************************)
(* Properties of the structure-based assembly (SpecS)                      *)
(***************************************************************************)
SbmOps == {"add_sbm_potentials", "add_sbm_bonds", "add_sbm_angles",
           "add_sbm_contacts"}

\* C16: add_sbm_potentials, add_sbm_bonds, add_sbm_angles and
\* add_sbm_contacts called on a model without reference trajectory raise
\* the missing-reference error (an AttributeError), add no term to the
\* Hamiltonian and leave the mapping as it was.
C16_NoReferenceFails ==
    [][ (ret'.op \in SbmOps /\ ret'.traj = NoAttr) =>
            /\ ret'.err \in {MissingReference, "AttributeError"}
            /\ UNCHANGED <<hvars, mapping>>
      ]_vars

\* C17: add_sbm_bonds and add_sbm_angles called with a reference trajectory
\* on a Hamiltonian whose default parameters and default tags are unset
\* install kb=20000, ka=40, kd=1, eps=1 and the tags harmonic bond, harmonic
\* angle, cosine dihedral, emit the defaults warning and return normally;
\* defaults that are set are left as they are.
C17_DefaultsFallback ==
    [][ (ret'.op \in {"add_sbm_bonds", "add_sbm_angles"} /\ ret'.traj # NoAttr) =>
            /\ (_default_parameters = EmptyDict /\ _default_potentials = EmptyDict) =>
                    /\ _default_parameters'.items =
                        {<<"kb", 20000>>, <<"ka", 40>>, <<"kd", 1>>, <<"eps", 1>>}
                    /\ _default_potentials'.items =
                        {<<"bond", "HARMONIC_BOND">>, <<"angle", "HARMONIC_ANGLE">>,
                         <<"dihedral", "COSINE_DIHEDRAL">>}
                    /\ ret'.warn
                    /\ ret'.err = "none"
            /\ _default_parameters # EmptyDict =>
                    _default_parameters' = _default_parameters
            /\ _default_potentials # EmptyDict =>
                    _default_potentials' = _default_potentials
      ]_vars

\* the bond terms of the mapped topology: tag and kb of the defaults, r0 the
\* distance of the two beads in the first reference frame
ExpectedSbmBonds(m, frm) ==
    [k \in DOMAIN m.topology.bonds |->
        LET b == m.topology.bonds[k]
        IN [label |-> DictGet(_default_potentials, "bond").val,
            atoms |-> b,
            params |-> << DictGet(_default_parameters, "kb").val,
                          Abs(BeadRule(m, frm, b[1]) - BeadRule(m, frm, b[2])) >>]]

DefaultsSet ==
    _default_parameters # EmptyDict /\ _default_potentials # EmptyDict

\* C18: with defaults set and a reference trajectory, add_sbm_bonds adds one
\* bond term per bond of the mapped topology (configured tag and kb, r0 the
\* reference distance of the two beads), and add_sbm_angles adds one angle
\* term per derived angle triple and no bond term; the Calpha/Cbeta mapping
\* of one chain ALA-GLY-ALA has 5 beads, one of them for GLY, and 4 bonds.
C18_SbmBondsAndAngles ==
    [][ /\ (ret'.op = "add_sbm_bonds" /\ ret'.traj # NoAttr /\ DefaultsSet) =>
                /\ ret'.err = "none"
                /\ _bonds' = _bonds \o ExpectedSbmBonds(mapping, ret'.traj[1])
        /\ ( /\ ret'.op = "add_sbm_angles" /\ ret'.traj # NoAttr /\ DefaultsSet
             /\ mapping._angles # NoAttr ) =>
                /\ ret'.err = "none"
                /\ _bonds' = _bonds
                /\ Len(_angles') = Len(_angles) + Len(mapping._angles)
        /\ ( /\ mapping'.variant = "CACB"
             /\ mapping'.topology.nchains = 1
             /\ [r \in DOMAIN mapping'.ref |-> mapping'.ref[r].name]
                    = <<"ALA", "GLY", "ALA">> ) =>
                /\ Len(mapping'.topology.atoms) = 5
                /\ Len(mapping'.topology.residues[2].atoms) = 1
                /\ Len(mapping'.topology.bonds) = Len(mapping'.topology.atoms) - 1
      ]_vars

(***************************************************************************)
(* Order of the collections (SpecH)                                        *)
(***************************************************************************)
\* the collection of a category after the step
CollNext(cat) ==
    CASE cat = "bond" -> _bonds'
      [] cat = "angle" -> _angles'
      [] cat = "dihedral" -> _dihedrals'
      [] OTHER -> _pairs'

\* C20: an add_* call whose term is constructed, and whose tag and atom
\* tuple no term of the collection has, appends the term at the end of the
\* collection of its category, leaves the terms already there and the three
\* other collections as they were; and column i of a per-term energy matrix
\* is the energy of the i-th term of the collection on the observable of
\* that term's own atoms.
C20_AppendKeepsOrder ==
    [][ /\ ( /\ ret'.op = "add"
             /\ ret'.err = "none"
             /\ \A i \in DOMAIN Coll(ret'.cat) :
                    ~SameIdentity(Coll(ret'.cat)[i], ret'.term) ) =>
                /\ CollNext(ret'.cat) = Append(Coll(ret'.cat), ret'.term)
                /\ \A c \in {"bond", "angle", "dihedral", "pair"} \ {ret'.cat} :
                        CollNext(c) = Coll(c)
        /\ (ret'.op = "calc" /\ ret'.err = "none" /\ ~ret'.sum) =>
                LET coll == CollNext(ret'.cat) IN
                \A f \in DOMAIN ret'.traj :
                    /\ Len(ret'.out[f]) = Len(coll)
                    /\ \A i \in DOMAIN coll :
                        ret'.out[f][i] =
                            TermV(coll[i], Observable(ret'.traj[f], coll[i].atoms))
      ]_vars

(***************************************************************************)
(* Bulk adds against single adds (SpecH)                                   *)
(***************************************************************************)
RECURSIVE SingleAdds(_, _, _)
\* the calls _add_bond(tag, atom1, atom2, kb, r0), ... made one after the
\* other for the entries of a list, each entry's parameters passed as
\* separate arguments; the first exception ends the sequence
SingleAdds(cat, coll, entries) ==
    IF entries = <<>> THEN [coll |-> coll, err |-> "none"]
    ELSE LET e == Head(entries)
             r == AddTerm(cat, coll, e.code, e.atoms, e.rest)
         IN IF r.err # "none" THEN [coll |-> r.coll, err |-> r.err]
            ELSE SingleAdds(cat, r.coll, Tail(entries))

\* C21: a bulk add leaves the collection of its category as the sequence
\* of single adds over its entries, in order, would leave it (each term
\* receiving its parameters as separate constructor arguments).
C21_BulkIsSequenceOfSingles ==
    [][ret'.op = "bulk" =>
            CollNext(ret'.cat) =
                SingleAdds(ret'.cat, Coll(ret'.cat), ret'.term).coll]_vars

\* C22: an add_disulfides call that fails for any pair of its list leaves
\* the topology bonds, the angle tuples and the dihedral tuples of the
\* mapping as they were before the call, the pairs processed earlier in the
\* call and the bond of the failing pair included.
C22_DisulfidesAllOrNothing ==
    [][(ret'.op = "add_disulfides" /\ ret'.err # "none") =>
            /\ mapping'.topology.bonds = mapping.topology.bonds
            /\ mapping'._angles = mapping._angles
            /\ mapping'._dihedrals = mapping._dihedrals]_vars

(***************************************************************************)
(* Properties of the derived tuples (SpecD)                                *)
(***************************************************************************)
\* beads a, a + 1, ..., a + n - 1 exist and lie in one chain
RunInChain(t, a, n) ==
    /\ a + n <= Len(t.atoms)
    /\ \A k \in 1..(n - 1) : ChainOfAtom(t, a + k) = ChainOfAtom(t, a)

\* the runs of n consecutive beads that lie in one chain, by first bead
ConsecutiveRuns(t, n) ==
    LET starts == SelectSeq([a \in DOMAIN t.atoms |-> a - 1],
                            LAMBDA a : RunInChain(t, a, n))
    IN [i \in DOMAIN starts |-> [k \in 1..n |-> starts[i] + k - 1]]

\* sum over the chains of max(beads of the chain - (n - 1), 0)
RunCount(t, n) ==
    SumSeq([c \in 1..t.nchains |->
                LET beads == Cardinality({a \in 0..(Len(t.atoms) - 1) :
                                            ChainOfAtom(t, a) = c - 1})
                IN IF beads >= n THEN beads - (n - 1) ELSE 0])

Beads(tuple) == {tuple[k] : k \in DOMAIN tuple}

\* the positions of the tuples of a list that hold bead b
TuplesWith(list, b) == {i \in DOMAIN list : b \in Beads(list[i])}

\* the CB-flanking angles of residue r, as sets of beads: CA and CB of r
\* with the CA of the residue before r, and with that of the residue after r,
\* in the chain of r
ExpectedCbAngles(m, r) ==
    LET t == m.topology
        ca == BeadNamed(t, r, "CA")
        cb == CbBead(t, r)
    IN (IF HasPreceding(m, r) THEN {{BeadNamed(t, r - 1, "CA"), ca, cb}} ELSE {})
       \cup (IF HasFollowing(m, r) THEN {{cb, ca, BeadNamed(t, r + 1, "CA")}}
              ELSE {})

\* the improper of residue r, as a set of beads: none for the first or the
\* last residue of a chain
ExpectedImpropers(m, r) ==
    LET t == m.topology
    IN IF HasPreceding(m, r) /\ HasFollowing(m, r)
       THEN {{BeadNamed(t, r, "CA"), BeadNamed(t, r - 1, "CA"),
              BeadNamed(t, r + 1, "CA"), CbBead(t, r)}}
       ELSE {}

\* the residues with a CB bead
CbResidues(m) ==
    {r \in 0..(Len(m.topology.residues) - 1) : m.topology.residues[r + 1].name # "GLY"}

\* every chain has at least two residues, so that the first and the last
\* residue of a chain each have one neighbour in it
ChainsOfTwo(m) ==
    \A r \in 0..(Len(m.topology.residues) - 1) : HasPreceding(m, r) \/ HasFollowing(m, r)

\* the tuples of a list that hold a CB are, residue by residue, the
\* expected CB angles (kind "angle") or the expected impropers
CbTuplesAre(m, list, kind) ==
    \A r \in CbResidues(m) :
        LET held == TuplesWith(list, CbBead(m.topology, r))
            expected == IF kind = "angle" THEN ExpectedCbAngles(m, r)
                        ELSE ExpectedImpropers(m, r)
        IN /\ Cardinality(held) = Cardinality(expected)
           /\ {Beads(list[i]) : i \in held} = expected

\* C24: under the Calpha/Cbeta variant, in every chain of a topology of one
\* or several chains, a derivation gives each non-glycine residue r CB angles
\* and impropers made only of the CA and CB of r and the CA of the residue
\* before and/or after r in its chain: one one-sided CB angle and no improper
\* for the first and the last residue of a chain, two CB angles and one
\* improper for any other non-glycine residue, none for a glycine.
C24_CbTuplesWithinChain ==
    [][ /\ (ret'.op = "_assign_sbm_angles" /\ mapping.variant = "CACB"
                /\ ChainsOfTwo(mapping)) =>
                /\ ret'.err = "none"
                /\ CbTuplesAre(mapping, mapping'._angles, "angle")
        /\ (ret'.op = "_assign_sbm_dihedrals" /\ mapping.variant = "CACB"
                /\ ChainsOfTwo(mapping)) =>
                /\ ret'.err = "none"
                /\ CbTuplesAre(mapping, mapping'._improper_dihedrals, "improper")
                /\ \A i \in DOMAIN mapping'._improper_dihedrals :
                        \E r \in CbResidues(mapping) :
                            CbBead(mapping.topology, r)
                                \in Beads(mapping'._improper_dihedrals[i])
      ]_vars

(***************************************************************************)
(* Index arrays of the energy evaluations (SpecH)                          *)
(***************************************************************************)
\* C25: in any interleaving of add calls and energy evaluations, the index
\* array a calc_*_energy call uses is derived from the collection as it is
\* at that call: one row per current term, in insertion order, holding the
\* atoms of that term; a term added after an earlier evaluation has its row
\* and its column in the next one.
C25_IndexArrayIsCurrent ==
    [][ret'.op = "calc" =>
            LET coll == Coll(ret'.cat) IN
            /\ Len(ret'.term) = Len(coll)
            /\ \A i \in DOMAIN coll : ret'.term[i] = coll[i].atoms
            /\ (ret'.err = "none" /\ ~ret'.sum) =>
                    \A f \in DOMAIN ret'.traj : Len(ret'.out[f]) = Len(coll)
      ]_vars

\* an evaluation over two terms of one category on different atom tuples,
\* the second added after the first: the array has both rows, in that order
C25_Witness ==
    /\ ret.op = "calc"
    /\ ret.err = "none"
    /\ ~ret.sum
    /\ Len(Coll(ret.cat)) = 2
    /\ Coll(ret.cat)[1].atoms # Coll(ret.cat)[2].atoms
    /\ ret.term = <<Coll(ret.cat)[1].atoms, Coll(ret.cat)[2].atoms>>
    /\ Len(ret.out[1]) = 2

=============================================================================
